---- MODULE Spec2Model ----
(***************************************************************************)
(* Contact reconciliation / enrichment pipeline of leadulater:             *)
(*   - follower merge        (app/api/_utils/socialFollowers.ts)           *)
(*   - ingest (field merge)  (app/api/contacts/[contactId]/ingest)         *)
(*   - deep research         (app/api/contacts/[contactId]/deep-research)  *)
(*   - capture processing    (app/api/captures/upload)                     *)
(*                                                                         *)
(* Representation.  A JavaScript string is a sequence of one-character     *)
(* strings; null and undefined string values are the markers NULL and      *)
(* UNDEF.  A JavaScript object is a function whose domain is the set of    *)
(* properties that are present.  A JavaScript number is an integer that    *)
(* counts halves (Num(100) is 100, Num(1)+1 is 1.5), so Math.round is      *)
(* observable.  A Firestore document is an object; set(patch,{merge:true}) *)
(* is MergeSet.                                                            *)
(***************************************************************************)
EXTENDS Integers, Sequences, FiniteSets, TLC

VARIABLES
    contact,     \* the stored contact document
    ing,         \* the ingest request in flight (route.ts POST)
    calls,       \* number of requests received so far
    runs,        \* the deep-research runs: "stream" and "route" (the two POST handlers)
    events,      \* the NDJSON records enqueued on the stream, in order
    capture,     \* the capture document (no property: not created)
    cp,          \* the upload request and its background processCaptureAsync
    mrg,         \* follower-merge harness: inputs and result
    fn,          \* harness of the other functions: inputs, position and result
    trg          \* the on-create trigger of the capture document (functions index.ts)

vars == <<contact, ing, calls, runs, events, capture, cp, mrg, fn, trg>>

----------------------------------------------------------------------------
(* Strings *)

NULL == <<"null">>
UNDEF == <<"undefined">>
Nullish(v) == v = NULL \/ v = UNDEF

\* `${v ?? ""}`
OrEmpty(v) == IF Nullish(v) THEN <<>> ELSE v

Get(obj, k) == IF k \in DOMAIN obj THEN obj[k] ELSE UNDEF
GetArr(obj, k) == IF k \in DOMAIN obj THEN obj[k] ELSE <<>>

IsSpace(c) == c \in {" ", "\n"}
IsDigitOrPlus(c) == c \in {"0", "1", "2", "3", "4", "5", "6", "7", "8", "9", "+"}

UpperCase ==
    <<"A", "B", "C", "D", "E", "F", "G", "H", "I", "J", "K", "L", "M",
      "N", "O", "P", "Q", "R", "S", "T", "U", "V", "W", "X", "Y", "Z">>
LowerCase ==
    <<"a", "b", "c", "d", "e", "f", "g", "h", "i", "j", "k", "l", "m",
      "n", "o", "p", "q", "r", "s", "t", "u", "v", "w", "x", "y", "z">>

LowerChar(c) ==
    IF \E i \in 1..Len(UpperCase) : UpperCase[i] = c
    THEN LowerCase[CHOOSE i \in 1..Len(UpperCase) : UpperCase[i] = c]
    ELSE c

RECURSIVE TrimLeft(_)
TrimLeft(s) == IF s # <<>> /\ IsSpace(Head(s)) THEN TrimLeft(Tail(s)) ELSE s

RECURSIVE TrimRight(_)
TrimRight(s) ==
    IF s # <<>> /\ IsSpace(s[Len(s)]) THEN TrimRight(SubSeq(s, 1, Len(s) - 1)) ELSE s

Trim(s) == TrimRight(TrimLeft(s))

ToLowerCase(s) == [i \in 1..Len(s) |-> LowerChar(s[i])]

\* replace(/[^\d+]/g, "")
RECURSIVE KeepDigitsAndPlus(_)
KeepDigitsAndPlus(s) ==
    IF s = <<>> THEN <<>>
    ELSE IF IsDigitOrPlus(Head(s)) THEN <<Head(s)>> \o KeepDigitsAndPlus(Tail(s))
    ELSE KeepDigitsAndPlus(Tail(s))

\* replace(/\s+/g, " ")
RECURSIVE CollapseSpaces(_)
CollapseSpaces(s) ==
    IF s = <<>> THEN <<>>
    ELSE IF IsSpace(Head(s))
         THEN <<" ">> \o CollapseSpaces(TrimLeft(s))
         ELSE <<Head(s)>> \o CollapseSpaces(Tail(s))

normalizeEmail(v) == ToLowerCase(Trim(OrEmpty(v)))
normalizePhone(v) == KeepDigitsAndPlus(OrEmpty(v))
normalizeName(v) == CollapseSpaces(ToLowerCase(Trim(OrEmpty(v))))
normalizeUrl(v) == ToLowerCase(Trim(OrEmpty(v)))

\* s contains t as a contiguous substring
Contains(s, t) ==
    \E i \in 0..(Len(s) - Len(t)) : SubSeq(s, i + 1, i + Len(t)) = t

----------------------------------------------------------------------------
(* Numbers *)

Num(n) == 2 * n
\* Math.round on a non-negative number: halves round up
MathRound(h) == 2 * ((h + 1) \div 2)
IsInteger(h) == h % 2 = 0

----------------------------------------------------------------------------
(* Follower merge: socialFollowers.ts *)

asString(v) == Trim(OrEmpty(v))

Platforms ==
    {"x", "twitter", "instagram", "linkedin", "youtube", "tiktok", "facebook",
     "threads", "github", "reddit", "pinterest", "twitch", "other"}

\* platform names are kept as whole words; an unknown or missing one is "other"
normalizePlatform(raw) == IF raw \in Platforms THEN raw ELSE "other"

canonicalPlatform_KeepsTwitter(p) == p

canonicalPlatform(p) == IF p = "twitter" THEN "x" ELSE p

Subscribers == <<"s", "u", "b", "s", "c", "r", "i", "b", "e", "r", "s">>
Followers == <<"f", "o", "l", "l", "o", "w", "e", "r", "s">>

normalizeMetric(raw) ==
    LET v == ToLowerCase(asString(raw))
    IN  IF v = <<>> THEN NULL
        ELSE IF Contains(v, <<"s", "u", "b">>) THEN Subscribers
        ELSE Followers

\* NaN: no number; the one test made on it is !Number.isFinite(count) || count < 0
NaN == 0 - Num(1)

Digits == <<"0", "1", "2", "3", "4", "5", "6", "7", "8", "9">>
IsDigit(c) == \E i \in 1..Len(Digits) : Digits[i] = c
DigitValue(c) == (CHOOSE i \in 1..Len(Digits) : Digits[i] = c) - 1

\* the integer a string of digits denotes
RECURSIVE Decimal(_)
Decimal(s) ==
    IF s = <<>> THEN 0 ELSE 10 * Decimal(SubSeq(s, 1, Len(s) - 1)) + DigitValue(s[Len(s)])

\* Number(text) for a trimmed text: 0 for "", the value of a string of digits,
\* NaN for any other text the samples hold
Number(text) ==
    IF text = <<>> THEN Num(0)
    ELSE IF \A i \in 1..Len(text) : IsDigit(text[i]) THEN Num(Decimal(text))
    ELSE NaN

\* typeof obj.count === "number" ? obj.count : Number(asString(obj.count)).
\* A field holds one kind of value: a count that is a number is the property
\* count, a count that is a string is the property countText; a missing or
\* null count is neither, and Number("") = 0
CoerceCount(obj) ==
    IF "count" \in DOMAIN obj THEN obj.count
    ELSE Number(asString(Get(obj, "countText")))

\* the follower, or <<>> for null (wrapped so that a list can be filtered)
normalizeFollower(raw) ==
    LET platform == canonicalPlatform(normalizePlatform(raw.platform))
        count == CoerceCount(raw)
        url == asString(Get(raw, "url"))
        handle == asString(Get(raw, "handle"))
        label == asString(Get(raw, "label"))
        metric == normalizeMetric(Get(raw, "metric"))
    IN  IF count < 0 THEN <<>>
        ELSE << [k \in {"platform", "count"}
                     \cup (IF label # <<>> THEN {"label"} ELSE {})
                     \cup (IF url # <<>> THEN {"url"} ELSE {})
                     \cup (IF handle # <<>> THEN {"handle"} ELSE {})
                     \cup (IF metric # NULL THEN {"metric"} ELSE {}) |->
                 CASE k = "platform" -> platform
                   [] k = "count" -> MathRound(count)
                   [] k = "label" -> label
                   [] k = "url" -> url
                   [] k = "handle" -> handle
                   [] k = "metric" -> metric] >>

Has(obj, k) == k \in DOMAIN obj

\* chooseBetter by the count alone
chooseBetter_CountOnly(a, b) == IF b.count > a.count THEN b ELSE a

chooseBetter(a, b) ==
    LET aHas == Has(a, "url") \/ Has(a, "handle")
        bHas == Has(b, "url") \/ Has(b, "handle")
    IN  IF b.count > a.count THEN b
        ELSE IF a.count > b.count THEN a
        ELSE IF bHas /\ ~aHas THEN b
        ELSE IF aHas /\ ~bHas THEN a
        ELSE IF Has(b, "label") /\ ~Has(a, "label")
             THEN [k \in DOMAIN a \cup {"label"} |-> IF k = "label" THEN b.label ELSE a[k]]
             ELSE a

\* list.map(normalizeFollower).filter(Boolean)
RECURSIVE NormalizeAll(_)
NormalizeAll(list) ==
    IF list = <<>> THEN <<>> ELSE normalizeFollower(Head(list)) \o NormalizeAll(Tail(list))

\* the Map byPlatform as a list in insertion order of the keys
RECURSIVE ByPlatform(_, _)
ByPlatform(items, acc) ==
    IF items = <<>> THEN acc
    ELSE LET item == Head(items)
             hit == {i \in 1..Len(acc) : acc[i].platform = item.platform}
         IN  IF hit = {}
             THEN ByPlatform(Tail(items), Append(acc, item))
             ELSE LET i == CHOOSE j \in hit : TRUE
                  IN  ByPlatform(Tail(items), [acc EXCEPT ![i] = chooseBetter(acc[i], item)])

\* Array.prototype.sort((a, b) => b.count - a.count): stable, descending
RECURSIVE InsertByCount(_, _)
InsertByCount(sorted, item) ==
    IF sorted = <<>> THEN <<item>>
    ELSE IF Head(sorted).count >= item.count
         THEN <<Head(sorted)>> \o InsertByCount(Tail(sorted), item)
         ELSE <<item>> \o sorted

RECURSIVE SortByCountDesc(_, _)
SortByCountDesc(items, acc) ==
    IF items = <<>> THEN acc
    ELSE SortByCountDesc(Tail(items), InsertByCount(acc, Head(items)))

NoSignal == <<[undefined |-> TRUE]>>

mergeSocialFollowers(existing, incoming) ==
    LET ex == NormalizeAll(existing)
        inc == NormalizeAll(incoming)
    IN  IF ex = <<>> /\ inc = <<>> THEN NoSignal
        ELSE SortByCountDesc(ByPlatform(ex \o inc, <<>>), <<>>)

----------------------------------------------------------------------------
(* Documents *)

\* contactRef.set(patch, { merge: true })
MergeSet(doc, patch) ==
    [k \in DOMAIN doc \cup DOMAIN patch |-> IF k \in DOMAIN patch THEN patch[k] ELSE doc[k]]

EmptyObj == [k \in {} |-> NULL]

ScalarFields ==
    <<"fullName", "firstName", "lastName", "jobTitle", "companyName",
      "email", "phone", "linkedInUrl", "website", "location">>

ScalarFieldSet == {ScalarFields[i] : i \in 1..Len(ScalarFields)}

\* null deepResearchError
NoError == "<null>"

----------------------------------------------------------------------------
(* Ingest: app/api/contacts/[contactId]/ingest/route.ts *)

\* a || b on strings
OrElse(a, b) == IF Nullish(a) \/ a = <<>> THEN b ELSE a

\* `${o.firstName ?? ""} ${o.lastName ?? ""}`.trim()
FirstLast(o) == Trim(OrEmpty(Get(o, "firstName")) \o <<" ">> \o OrEmpty(Get(o, "lastName")))

NameOf(o) == normalizeName(OrElse(Get(o, "fullName"), FirstLast(o)))

Conflict(field, ex, inc) == [field |-> field, existing |-> ex, incoming |-> inc]

\* DetectConflicts without the phone comparison
DetectConflicts_NoPhone(existing, incoming) ==
    LET exEmail == normalizeEmail(Get(existing, "email"))
        inEmail == normalizeEmail(Get(incoming, "email"))
        exName == NameOf(existing)
        inName == NameOf(incoming)
        exLinkedIn == normalizeUrl(Get(existing, "linkedInUrl"))
        inLinkedIn == normalizeUrl(Get(incoming, "linkedInUrl"))
    IN  (IF exEmail # <<>> /\ inEmail # <<>> /\ exEmail # inEmail
         THEN <<Conflict("email", OrEmpty(Get(existing, "email")), OrEmpty(Get(incoming, "email")))>>
         ELSE <<>>)
        \o
        (IF exName # <<>> /\ inName # <<>> /\ exName # inName
         THEN <<Conflict("name", exName, inName)>>
         ELSE <<>>)
        \o
        (IF exLinkedIn # <<>> /\ inLinkedIn # <<>> /\ exLinkedIn # inLinkedIn
         THEN <<Conflict("linkedInUrl", OrEmpty(Get(existing, "linkedInUrl")),
                         OrEmpty(Get(incoming, "linkedInUrl")))>>
         ELSE <<>>)

DetectConflicts(existing, incoming) ==
    LET exEmail == normalizeEmail(Get(existing, "email"))
        inEmail == normalizeEmail(Get(incoming, "email"))
        exPhone == normalizePhone(Get(existing, "phone"))
        inPhone == normalizePhone(Get(incoming, "phone"))
        exName == NameOf(existing)
        inName == NameOf(incoming)
        exLinkedIn == normalizeUrl(Get(existing, "linkedInUrl"))
        inLinkedIn == normalizeUrl(Get(incoming, "linkedInUrl"))
    IN  (IF exEmail # <<>> /\ inEmail # <<>> /\ exEmail # inEmail
         THEN <<Conflict("email", OrEmpty(Get(existing, "email")), OrEmpty(Get(incoming, "email")))>>
         ELSE <<>>)
        \o
        (IF exPhone # <<>> /\ inPhone # <<>> /\ exPhone # inPhone
         THEN <<Conflict("phone", OrEmpty(Get(existing, "phone")), OrEmpty(Get(incoming, "phone")))>>
         ELSE <<>>)
        \o
        (IF exName # <<>> /\ inName # <<>> /\ exName # inName
         THEN <<Conflict("name", exName, inName)>>
         ELSE <<>>)
        \o
        (IF exLinkedIn # <<>> /\ inLinkedIn # <<>> /\ exLinkedIn # inLinkedIn
         THEN <<Conflict("linkedInUrl", OrEmpty(Get(existing, "linkedInUrl")),
                         OrEmpty(Get(incoming, "linkedInUrl")))>>
         ELSE <<>>)

\* the normalize argument of each applyField call
NormalizeFor(key, v) ==
    CASE key = "email" -> normalizeEmail(v)
      [] key = "phone" -> normalizePhone(v)
      [] key \in {"linkedInUrl", "website"} -> normalizeUrl(v)
      [] OTHER -> normalizeName(v)

\* applyField overwriting a differing value whatever force is
applyField_IgnoresForce(existing, key, value, force) ==
    LET v == IF Nullish(value) THEN value ELSE Trim(value)
    IN  IF Nullish(v) \/ v = <<>> THEN <<>>
        ELSE LET ex == NormalizeFor(key, Get(existing, key))
                 inc == NormalizeFor(key, v)
             IN  IF ex = <<>> THEN <<v>>
                 ELSE IF ex = inc THEN <<>>
                 ELSE <<v>>

\* applyField: <<v>> when patch[key] = v is set, <<>> when the field is left alone
applyField(existing, key, value, force) ==
    LET v == IF Nullish(value) THEN value ELSE Trim(value)
    IN  IF Nullish(v) \/ v = <<>> THEN <<>>
        ELSE LET ex == NormalizeFor(key, Get(existing, key))
                 inc == NormalizeFor(key, v)
             IN  IF ex = <<>> THEN <<v>>
                 ELSE IF ex = inc THEN <<>>
                 ELSE IF force THEN <<v>>
                 ELSE <<>>

RECURSIVE ScalarPatch(_, _, _, _)
ScalarPatch(existing, incoming, force, i) ==
    IF i > Len(ScalarFields) THEN <<>>
    ELSE LET key == ScalarFields[i]
             r == applyField(existing, key, Get(incoming, key), force)
         IN  (IF r = <<>> THEN <<>> ELSE << <<key, r[1]>> >>)
             \o ScalarPatch(existing, incoming, force, i + 1)

NotesSeparator == <<"\n", "\n", "[Added info]", "\n">>

\* NotesPatch replacing the notes by the incoming notes
NotesPatch_Overwrites(existing, incoming) ==
    LET incomingNotes == Trim(OrEmpty(Get(incoming, "notes")))
    IN  IF incomingNotes = <<>> THEN <<>> ELSE << <<"notes", incomingNotes>> >>

NotesPatch(existing, incoming) ==
    LET incomingNotes == Trim(OrEmpty(Get(incoming, "notes")))
        existingNotes == Trim(OrEmpty(Get(existing, "notes")))
    IN  IF incomingNotes = <<>> THEN <<>>
        ELSE << <<"notes", IF existingNotes # <<>>
                           THEN existingNotes \o NotesSeparator \o incomingNotes
                           ELSE incomingNotes>> >>

\* tags.map((t) => `${t}`.trim()).filter(Boolean)
RECURSIVE TrimTags(_)
TrimTags(tags) ==
    IF tags = <<>> THEN <<>>
    ELSE (IF Trim(Head(tags)) = <<>> THEN <<>> ELSE <<Trim(Head(tags))>>) \o TrimTags(Tail(tags))

\* Array.from(new Set(list)): first occurrences, in order
RECURSIVE Dedupe(_, _)
Dedupe(list, acc) ==
    IF list = <<>> THEN acc
    ELSE IF \E i \in 1..Len(acc) : acc[i] = Head(list)
         THEN Dedupe(Tail(list), acc)
         ELSE Dedupe(Tail(list), Append(acc, Head(list)))

\* the incoming tags alone
TagsPatch_IncomingOnly(existing, incoming) ==
    LET inTags == TrimTags(GetArr(incoming, "tags"))
    IN  IF inTags = <<>> THEN <<>>
        ELSE << <<"tags", Dedupe(inTags, <<>>)>> >>

TagsPatch(existing, incoming) ==
    LET inTags == TrimTags(GetArr(incoming, "tags"))
        existingTags == TrimTags(GetArr(existing, "tags"))
    IN  IF inTags = <<>> THEN <<>>
        ELSE << <<"tags", Dedupe(existingTags \o inTags, <<>>)>> >>

FollowersPatch_WritesEmpty(existing, incoming) ==
    LET mergedFollowers ==
            mergeSocialFollowers(GetArr(existing, "socialFollowers"),
                                 GetArr(incoming, "socialFollowers"))
    IN  << <<"socialFollowers",
             IF mergedFollowers = NoSignal THEN <<>> ELSE mergedFollowers>> >>

FollowersPatch(existing, incoming) ==
    LET mergedFollowers ==
            mergeSocialFollowers(GetArr(existing, "socialFollowers"),
                                 GetArr(incoming, "socialFollowers"))
    IN  IF mergedFollowers = NoSignal THEN <<>>
        ELSE << <<"socialFollowers", mergedFollowers>> >>

\* the <<key, value>> pairs in the order the route adds them to patch
PatchEntries(existing, incoming, force) ==
    ScalarPatch(existing, incoming, force, 1)
    \o NotesPatch(existing, incoming)
    \o TagsPatch(existing, incoming)
    \o FollowersPatch(existing, incoming)

FromEntries(entries) ==
    [k \in {entries[i][1] : i \in 1..Len(entries)} |->
        (LET i == CHOOSE j \in 1..Len(entries) : entries[j][1] = k IN entries[i][2])]

Keys(entries) == [i \in 1..Len(entries) |-> entries[i][1]]

----------------------------------------------------------------------------
(* Model completions: lib/extractionSchema.ts safeParseModelJson and the
   schema parse.  A completion is text.  Inside an object the members are
   written with one symbol: Conforming stands for members that fit the schema
   of the phase, Violating for well-formed members of a wrong type (such as
   "contact": 5). *)

Conforming == "$"
Violating == "%"

\* a thrown Error
Throw(message) == [ok |-> FALSE, message |-> message]

\* indexOf and lastIndexOf, counted from 1: 0 is JavaScript's -1
IndexOf(s, c) ==
    IF \E i \in 1..Len(s) : s[i] = c
    THEN CHOOSE i \in 1..Len(s) : s[i] = c /\ \A j \in 1..(i - 1) : s[j] # c
    ELSE 0

LastIndexOf(s, c) ==
    IF \E i \in 1..Len(s) : s[i] = c
    THEN CHOOSE i \in 1..Len(s) : s[i] = c /\ \A j \in (i + 1)..Len(s) : s[j] # c
    ELSE 0

\* JSON.parse of a text that starts with "{" and ends with "}": white space
\* around the members is skipped; the value is the list of member symbols
JSONparse(text) ==
    LET inner == Trim(SubSeq(text, 2, Len(text) - 1))
    IN  IF inner = <<>> \/ inner = <<Conforming>> \/ inner = <<Violating>>
        THEN [ok |-> TRUE, value |-> inner]
        ELSE Throw("Unexpected token in JSON")

\* JSON.parse of the whole trimmed text, without the slice
safeParseModelJson_WholeText(value) ==
    LET trimmed == Trim(value)
    IN  IF trimmed # <<>> /\ Head(trimmed) = "{" /\ trimmed[Len(trimmed)] = "}"
        THEN JSONparse(trimmed)
        ELSE Throw("Unexpected token in JSON")

\* extractionSchema.ts lines 111-120
safeParseModelJson(value) ==
    LET trimmed == Trim(value)
        firstBrace == IndexOf(trimmed, "{")
        lastBrace == LastIndexOf(trimmed, "}")
    IN  IF firstBrace = 0 \/ lastBrace = 0 \/ lastBrace <= firstBrace
        THEN Throw("Model did not return JSON")
        ELSE JSONparse(SubSeq(trimmed, firstBrace, lastBrace))

\* contactExtractionSchema.parse and contactEnrichmentSchema.parse: every
\* property has a default or is optional, so the empty object is accepted
schemaParse(parsedJson) ==
    IF parsedJson = <<Violating>> THEN Throw("ZodError: invalid type")
    ELSE [ok |-> TRUE, value |-> parsedJson]

\* the repair call rejects instead of answering
Rejects == <<"(rejects)">>

\* the extraction phase after the first completion arrived: parse, one repair
\* round-trip when the parse throws, then the schema (ingest route.ts lines
\* 145-166; part_009 lines 265-289).  modelCalls counts openRouterChat calls.
extractionPhase(content, repair) ==
    LET first == safeParseModelJson(content)
    IN  IF first.ok
        THEN schemaParse(first.value) @@ [modelCalls |-> 1]
        ELSE IF repair = Rejects
        THEN Throw("OpenRouter error") @@ [modelCalls |-> 2]
        ELSE LET second == safeParseModelJson(repair)
             IN  IF second.ok
                 THEN schemaParse(second.value) @@ [modelCalls |-> 2]
                 ELSE second @@ [modelCalls |-> 2]

\* the enrichment phase after its completion arrived: parse, then the schema
\* (stream/route.ts lines 217-218, 405-406; part_009 lines 404-405)
enrichmentPhase(content) ==
    LET parsed == safeParseModelJson(content)
    IN  IF parsed.ok
        THEN schemaParse(parsed.value) @@ [modelCalls |-> 1]
        ELSE parsed @@ [modelCalls |-> 1]

----------------------------------------------------------------------------
(* Request validation, the same in captures/upload (part_009 lines 64-99) and
   in ingest (route.ts lines 47-78).  A form carries the text and the files of
   the fields image1, image2, ...; a field that was not sent is NoFile. *)

\* const MAX_IMAGES = 6
MAX_IMAGES == 6
\* const MAX_BYTES_PER_IMAGE = 10 * 1024 * 1024
MAX_BYTES_PER_IMAGE == 10 * 1024 * 1024

allowedImageMimeTypes == {"image/png", "image/jpeg", "image/webp"}

NoFile == [size |-> 0, type |-> ""]

\* the loop over image1..image6: the files that are present and not empty
CollectImages(files) ==
    SelectSeq([i \in 1..(IF Len(files) < MAX_IMAGES THEN Len(files) ELSE MAX_IMAGES) |-> files[i]],
              LAMBDA file : file.size > 0)

Reject(status, message) == [ok |-> FALSE, status |-> status, message |-> message]

\* `Unsupported image type: ${file.type || "unknown"}`
UnsupportedMessage(type) ==
    CASE type = "" -> "Unsupported image type: unknown"
      [] type = "image/gif" -> "Unsupported image type: image/gif"
      [] OTHER -> "Unsupported image type: other"

\* the first image that fails the type or the size check
RECURSIVE ValidateImages(_)
ValidateImages(imageFiles) ==
    IF imageFiles = <<>> THEN [ok |-> TRUE]
    ELSE IF Head(imageFiles).type \notin allowedImageMimeTypes
    THEN Reject(400, UnsupportedMessage(Head(imageFiles).type))
    ELSE IF Head(imageFiles).size > MAX_BYTES_PER_IMAGE
    THEN Reject(400, "Image too large (max 10MB)")
    ELSE ValidateImages(Tail(imageFiles))

\* the checks between formData() and the first database read
validateRequest(form) ==
    LET imageFiles == CollectImages(form.images)
    IN  IF imageFiles = <<>> /\ Trim(form.text) = <<>>
        THEN Reject(400, "Please provide at least one image or some text")
        ELSE IF Len(imageFiles) > MAX_IMAGES
        THEN Reject(400, "Max 6 images allowed")
        ELSE ValidateImages(imageFiles) @@ [imageFiles |-> imageFiles]

NoForm == [text |-> <<>>, images |-> <<>>]

----------------------------------------------------------------------------
(* Ingest: the POST handler *)

MaxCalls == 2

\* content is the first completion, modelCalls the openRouterChat calls made
\* once it arrived
IngestIdle ==
    [pc |-> "idle", force |-> FALSE, deep |-> FALSE, snap |-> EmptyObj,
     incoming |-> EmptyObj, status |-> 0, conflicts |-> <<>>, applied |-> <<>>,
     queued |-> FALSE, patch |-> EmptyObj, content |-> <<>>, modelCalls |-> 0,
     form |-> NoForm, message |-> ""]

\* the request is refused before the contact is read: no token, a token that
\* does not verify, or a form that fails validation (lines 32-78, 290-296)
IngestReject(forms) ==
    /\ ing.pc = "idle"
    /\ \E form \in forms :
          \/ \E early \in {Reject(401, "Unauthorized"),
                             Reject(500, "Firebase ID token has expired")} :
                ing' = [IngestIdle EXCEPT !.pc = "done", !.form = form, !.snap = contact,
                                          !.status = early.status, !.message = early.message]
          \/ /\ ~validateRequest(form).ok
             /\ ing' = [IngestIdle EXCEPT !.pc = "done", !.form = form, !.snap = contact,
                                          !.status = validateRequest(form).status,
                                          !.message = validateRequest(form).message]
    /\ calls' = calls + 1
    /\ UNCHANGED <<contact, runs, events, capture, cp, mrg, fn, trg>>

\* the form passes validation and the contact snapshot is read (lines 42-88)
IngestRead(forces, deeps, forms) ==
    /\ ing.pc = "idle"
    /\ \E force \in forces, deep \in deeps, form \in forms :
          /\ validateRequest(form).ok
          /\ ing' = [IngestIdle EXCEPT !.pc = "read", !.force = force, !.deep = deep,
                                       !.snap = contact, !.form = form]
    /\ calls' = calls + 1
    /\ UNCHANGED <<contact, runs, events, capture, cp, mrg, fn, trg>>

\* the model answers; the extraction phase parses the completion, conflicts
\* are detected and the patch is applied (lines 145-289)
IngestApply(extractions, completions) ==
    /\ ing.pc = "read"
    /\ \E completion \in completions :
        LET phase == extractionPhase(completion.content, completion.repair)
            answered == [ing EXCEPT !.content = completion.content,
                                    !.modelCalls = phase.modelCalls]
        IN  IF ~phase.ok
            \* the catch answers 500 (lines 290-296)
            THEN /\ ing' = [answered EXCEPT !.pc = "done", !.status = 500]
                 /\ UNCHANGED contact
            ELSE \E incoming \in (IF phase.value = <<>> THEN {EmptyObj} ELSE extractions) :
                LET existing == ing.snap
                    conflicts == DetectConflicts(existing, incoming)
                    entries == PatchEntries(existing, incoming, ing.force)
                    patch == FromEntries(entries)
                    extra == IF ing.deep
                             THEN [deepResearchStatus |-> "queued", deepResearchError |-> NoError]
                             ELSE EmptyObj
                IN  IF conflicts # <<>> /\ ~ing.force
                    THEN /\ ing' = [answered EXCEPT !.pc = "done", !.incoming = incoming,
                                                    !.status = 409, !.conflicts = conflicts]
                         /\ UNCHANGED contact
                    ELSE IF DOMAIN patch = {}
                    THEN /\ ing' = [answered EXCEPT !.pc = "done", !.incoming = incoming,
                                                    !.status = 200, !.conflicts = conflicts,
                                                    !.queued = ing.deep]
                         /\ UNCHANGED contact
                    ELSE \/ /\ contact' = MergeSet(contact, MergeSet(patch, extra))
                            /\ ing' = [answered EXCEPT !.pc = "done", !.incoming = incoming,
                                                       !.status = 200, !.conflicts = conflicts,
                                                       !.applied = Keys(entries),
                                                       !.queued = ing.deep,
                                                       !.patch = MergeSet(patch, extra)]
                         \* contactRef.set rejects: the catch answers 500
                         \/ /\ ing' = [answered EXCEPT !.pc = "done", !.incoming = incoming,
                                                       !.status = 500, !.conflicts = conflicts]
                            /\ UNCHANGED contact
    /\ UNCHANGED <<calls, runs, events, capture, cp, mrg, fn, trg>>

\* no completion arrives: the images, the prompt or the first model call
\* throw (lines 90-144, 290-296)
IngestFail ==
    /\ ing.pc = "read"
    /\ ing' = [ing EXCEPT !.pc = "done", !.status = 500]
    /\ UNCHANGED <<contact, calls, runs, events, capture, cp, mrg, fn, trg>>

\* the handler has returned; the route accepts the next request
IngestAgain ==
    /\ ing.pc = "done"
    /\ calls < MaxCalls
    /\ ing' = IngestIdle
    /\ UNCHANGED <<contact, calls, runs, events, capture, cp, mrg, fn, trg>>

----------------------------------------------------------------------------
(* Deep research: app/api/contacts/[contactId]/deep-research, the streaming
   handler ("stream") and the non-streaming handler ("route") *)

MaxChunks == 3
\* maxImages: 6
MaxImages == 6

RunIdle ==
    [pc |-> "idle", data |-> EmptyObj, authorised |-> FALSE, fullContent |-> <<>>,
     images |-> <<>>, searchResults |-> <<>>, persisted |-> <<>>,
     enrichment |-> EmptyObj, links |-> <<>>, chunks |-> 0, status |-> 0,
     enrichmentContent |-> <<>>, modelCalls |-> 0, open |-> TRUE]

RunOff == [RunIdle EXCEPT !.pc = "off"]

RunIds == {"stream", "route"}

Ev(type) == [type |-> type]
StatusEv(stage) == [type |-> "status", stage |-> stage]
ContentEv(text) == [type |-> "content", text |-> text]
ReasoningEv(text) == [type |-> "reasoning", text |-> text]
SourcesEv(sources) == [type |-> "sources", sources |-> sources]
ErrorEv(message) == [type |-> "error", message |-> message]
DoneEv == [type |-> "done", ok |-> TRUE]

\* controller.enqueue(encode(e)) for each e; the route handler has no stream,
\* and nothing reaches a caller who has closed the connection
Enqueue(r, evs) == IF r = "stream" /\ runs[r].open THEN events \o evs ELSE events

\* err.message of what is thrown while the run is at pc
MessageAt(pc) ==
    CASE pc = "idle" -> "Firebase ID token has expired"
      [] pc = "research" -> "Perplexity module did not export expected functions"
      [] pc \in {"chunks", "batch"} -> "Perplexity Deep Research returned empty content"
      [] pc = "images" -> "storage save failed"
      [] pc = "enrich" -> "Model did not return JSON"
      [] pc = "curate" -> "fetch failed"
      [] OTHER -> "firestore write failed"

\* the handler answers before the try block has set anything (lines 33-62, 327-346)
ResReject(r) ==
    /\ runs[r].pc = "idle"
    /\ \E why \in {"Unauthorized", "Not found", "Forbidden"} :
          /\ events' = Enqueue(r, <<ErrorEv(why)>>)
          /\ runs' = [runs EXCEPT ![r].pc = "closed",
                                  ![r].status = CASE why = "Unauthorized" -> 401
                                                  [] why = "Not found" -> 404
                                                  [] OTHER -> 403]
    /\ UNCHANGED <<contact, ing, calls, capture, cp, mrg, fn, trg>>

\* the handler starts without reading the contact
ResStart_NoSnapshot(r) ==
    /\ runs[r].pc = "idle"
    /\ runs' = [runs EXCEPT ![r].pc = "setRunning", ![r].authorised = TRUE]
    /\ events' = Enqueue(r, <<StatusEv("starting")>>)
    /\ UNCHANGED <<contact, ing, calls, capture, cp, mrg, fn, trg>>

\* the contact snapshot is read and access is granted (lines 46-64, 336-346)
ResStart(r) ==
    /\ runs[r].pc = "idle"
    /\ runs' = [runs EXCEPT ![r].pc = "setRunning", ![r].data = contact,
                            ![r].authorised = TRUE]
    /\ events' = Enqueue(r, <<StatusEv("starting")>>)
    /\ UNCHANGED <<contact, ing, calls, capture, cp, mrg, fn, trg>>

\* lines 66-75, 348-355
ResSetRunning(r) ==
    /\ runs[r].pc = "setRunning"
    /\ contact' = MergeSet(contact, [deepResearchStatus |-> "running",
                                     deepResearchError |-> NoError])
    /\ runs' = [runs EXCEPT ![r].pc = "research"]
    /\ events' = Enqueue(r, <<StatusEv("searching")>>)
    /\ UNCHANGED <<ing, calls, capture, cp, mrg, fn, trg>>

\* the backend the perplexity module offers (lines 82-86, 143-145); the
\* non-streaming handler always calls performDeepResearch (line 357)
ResBackend(r) ==
    /\ runs[r].pc = "research"
    /\ \/ /\ r = "stream"
          /\ runs' = [runs EXCEPT ![r].pc = "chunks"]
          /\ UNCHANGED events
       \/ /\ runs' = [runs EXCEPT ![r].pc = "batch"]
          /\ events' = Enqueue(r, <<StatusEv("generating")>>)
    /\ UNCHANGED <<contact, ing, calls, capture, cp, mrg, fn, trg>>

NonBlank(text) == Trim(text) # <<>>

\* the records one chunk makes the loop enqueue (lines 99-142)
ChunkEvents(chunk) ==
    CASE chunk.object = "chat.reasoning" ->
            LET thoughts == SelectSeq(chunk.reasoning_steps, NonBlank)
            IN  [i \in 1..Len(thoughts) |-> ReasoningEv(thoughts[i])]
      [] chunk.object = "chat.reasoning.done" ->
            <<StatusEv("generating")>>
            \o (IF Has(chunk, "search_results") THEN <<SourcesEv(chunk.search_results)>> ELSE <<>>)
      [] chunk.object = "chat.completion.chunk" ->
            IF Has(chunk, "delta") /\ chunk.delta # <<>> THEN <<ContentEv(chunk.delta)>> ELSE <<>>
      [] chunk.object = "chat.completion.done" ->
            IF Has(chunk, "search_results") THEN <<SourcesEv(chunk.search_results)>> ELSE <<>>
      [] OTHER -> <<>>

\* fullContent after one chunk
ChunkContent(fullContent, chunk) ==
    CASE chunk.object = "chat.completion.chunk" ->
            IF Has(chunk, "delta") /\ chunk.delta # <<>> THEN fullContent \o chunk.delta
            ELSE fullContent
      [] chunk.object = "chat.completion.done" ->
            IF Has(chunk, "final") /\ Trim(chunk.final) # <<>> THEN chunk.final
            ELSE fullContent
      [] OTHER -> fullContent

ChunkField(old, chunk, k) ==
    IF chunk.object \in {"chat.reasoning.done", "chat.completion.done"} /\ Has(chunk, k)
    THEN chunk[k] ELSE old

\* one iteration of the for-await loop (lines 99-142)
ResChunk(r, chunkSet) ==
    /\ runs[r].pc = "chunks"
    /\ runs[r].chunks < MaxChunks
    /\ \E chunk \in chunkSet :
          /\ runs' = [runs EXCEPT
                        ![r].chunks = @ + 1,
                        ![r].fullContent = ChunkContent(@, chunk),
                        ![r].images = ChunkField(@, chunk, "images"),
                        ![r].searchResults = ChunkField(@, chunk, "search_results")]
          /\ events' = Enqueue(r, ChunkEvents(chunk))
    /\ UNCHANGED <<contact, ing, calls, capture, cp, mrg, fn, trg>>

\* the stream of chunks ends (line 142, 169)
ResChunksEnd(r) ==
    /\ runs[r].pc = "chunks"
    /\ runs' = [runs EXCEPT ![r].pc = "images"]
    /\ events' = Enqueue(r, <<StatusEv("saving")>>)
    /\ UNCHANGED <<contact, ing, calls, capture, cp, mrg, fn, trg>>

\* perplexity.ts performDeepResearch on the completion the service returns
performDeepResearch(completion) ==
    IF OrEmpty(Get(completion, "content")) = <<>>
    THEN Throw("Perplexity Deep Research returned empty content")
    ELSE [ok |-> TRUE, content |-> completion.content,
          search_results |-> GetArr(completion, "search_results"),
          images |-> GetArr(completion, "images")]

\* the batch research call answers (lines 146-169, 357-367)
ResBatchResult(r, completions) ==
    /\ runs[r].pc = "batch"
    /\ \E completion \in completions :
          LET res == performDeepResearch(completion)
          IN  IF res.ok
              THEN /\ runs' = [runs EXCEPT ![r].pc = "images",
                                           ![r].fullContent = res.content,
                                           ![r].images = res.images,
                                           ![r].searchResults = res.search_results]
                   /\ events' = Enqueue(r,
                        (IF res.search_results # <<>>
                         THEN <<SourcesEv(res.search_results)>> ELSE <<>>)
                        \o (IF res.content # <<>> THEN <<ContentEv(res.content)>> ELSE <<>>)
                        \o <<StatusEv("saving")>>)
              ELSE /\ runs' = [runs EXCEPT ![r].pc = "closed", ![r].status = 500]
                   /\ events' = Enqueue(r, <<ErrorEv(res.message)>>)
    /\ UNCHANGED <<contact, ing, calls, capture, cp, mrg, fn, trg>>

\* list.slice(0, n)
Slice(list, n) == SubSeq(list, 1, IF Len(list) < n THEN Len(list) ELSE n)

\* the sub-lists of a list, order kept
RECURSIVE SubLists(_)
SubLists(list) ==
    IF list = <<>> THEN {<<>>}
    ELSE LET rest == SubLists(Tail(list))
         IN  rest \cup {<<Head(list)>> \o l : l \in rest}

\* persistResearchImages: each of the first maxImages images is saved or skipped
ResImages(r) ==
    /\ runs[r].pc = "images"
    /\ \E saved \in SubLists(Slice(runs[r].images, MaxImages)) :
          runs' = [runs EXCEPT ![r].pc = "phaseA", ![r].persisted = saved]
    /\ UNCHANGED <<contact, events, ing, calls, capture, cp, mrg, fn, trg>>

\* the research text is stored (lines 178-191, 376-384)
PhaseAPatch(r) ==
    MergeSet([deepResearchRaw |-> runs[r].fullContent,
              researchImages |-> runs[r].persisted,
              deepResearchSources |-> runs[r].searchResults],
             IF r = "stream"
             THEN [deepResearchPrompt |-> "Deep research requested (streamed)."]
             ELSE EmptyObj)

ResPhaseA(r) ==
    /\ runs[r].pc = "phaseA"
    /\ contact' = MergeSet(contact, PhaseAPatch(r))
    /\ runs' = [runs EXCEPT ![r].pc = "enrich"]
    /\ events' = Enqueue(r, <<StatusEv("enriching")>>)
    /\ UNCHANGED <<ing, calls, capture, cp, mrg, fn, trg>>

\* contactEnrichmentSchema with every default taken
DefaultEnrichment ==
    [contactPatch |-> EmptyObj, researchFields |-> EmptyObj,
     socialFollowers |-> <<>>, extraLinks |-> <<>>]

\* the enrichment completion arrives and is parsed against
\* contactEnrichmentSchema; a throw goes to the catch block
\* (lines 196-230, 284-292; 386-417, 468-471)
ResEnrich(r, enrichments, completions) ==
    /\ runs[r].pc = "enrich"
    /\ \E enrichmentContent \in completions :
        LET phase == enrichmentPhase(enrichmentContent)
            answered == [runs[r] EXCEPT !.enrichmentContent = enrichmentContent,
                                        !.modelCalls = phase.modelCalls]
        IN  IF ~phase.ok
            THEN /\ runs' = [runs EXCEPT ![r] = [answered EXCEPT !.pc = "closed",
                                                                 !.status = 500]]
                 /\ events' = Enqueue(r, <<ErrorEv(phase.message)>>)
            ELSE /\ \E enrichment \in (IF phase.value = <<>> THEN {DefaultEnrichment}
                                        ELSE enrichments) :
                      runs' = [runs EXCEPT ![r] = [answered EXCEPT !.pc = "curate",
                                                                  !.enrichment = enrichment]]
                 /\ UNCHANGED events
    /\ UNCHANGED <<contact, ing, calls, capture, cp, mrg, fn, trg>>

\* curateExtraLinks returns (lines 233-248)
ResCurate(r, linkLists) ==
    /\ runs[r].pc = "curate"
    /\ \E links \in linkLists :
          runs' = [runs EXCEPT ![r].pc = "final", ![r].links = links]
    /\ UNCHANGED <<contact, events, ing, calls, capture, cp, mrg, fn, trg>>

\* the final write with the summary as notes whatever the patch holds
EnrichmentPatch_SummaryWins(enrichment, links) ==
    LET patch == enrichment.contactPatch
        summary == Trim(OrEmpty(Get(enrichment, "summary")))
        summaryOrNull == IF summary # <<>> THEN summary ELSE NULL
        written == {k \in ScalarFieldSet : Get(patch, k) # UNDEF}
                   \cup {"notes", "deepResearchSummary", "researchFields", "extraLinks",
                         "deepResearchStatus", "deepResearchError"}
                   \cup (IF Has(patch, "tags") THEN {"tags"} ELSE {})
    IN  [k \in written |->
            CASE k = "notes" -> summaryOrNull
              [] k = "tags" -> Dedupe(TrimTags(patch.tags), <<>>)
              [] k = "deepResearchSummary" -> summaryOrNull
              [] k = "researchFields" -> enrichment.researchFields
              [] k = "extraLinks" -> links
              [] k = "deepResearchStatus" -> "done"
              [] k = "deepResearchError" -> NoError
              [] OTHER -> patch[k]]

\* the object of the final contactRef.set without the followers
\* (lines 220-226, 250-280; part_009 lines 407-443)
EnrichmentPatch(enrichment, links) ==
    LET patch == enrichment.contactPatch
        summary == Trim(OrEmpty(Get(enrichment, "summary")))
        summaryOrNull == IF summary # <<>> THEN summary ELSE NULL
        notesValue == IF Get(patch, "notes") # UNDEF THEN patch.notes ELSE summaryOrNull
        written == {k \in ScalarFieldSet : Get(patch, k) # UNDEF}
                   \cup {"notes", "deepResearchSummary", "researchFields", "extraLinks",
                         "deepResearchStatus", "deepResearchError"}
                   \cup (IF Has(patch, "tags") THEN {"tags"} ELSE {})
    IN  [k \in written |->
            CASE k = "notes" -> notesValue
              [] k = "tags" -> Dedupe(TrimTags(patch.tags), <<>>)
              [] k = "deepResearchSummary" -> summaryOrNull
              [] k = "researchFields" -> enrichment.researchFields
              [] k = "extraLinks" -> links
              [] k = "deepResearchStatus" -> "done"
              [] k = "deepResearchError" -> NoError
              [] OTHER -> patch[k]]

\* the final contactRef.set with every identity field spread without its
\* undefined test: an omitted field is written as null
FinalPatch_OmittedAsNull(data, enrichment, curatedLinks) ==
    LET mergedFollowers == mergeSocialFollowers(GetArr(data, "socialFollowers"),
                                                GetArr(enrichment, "socialFollowers"))
        omitted == ScalarFieldSet \ DOMAIN enrichment.contactPatch
    IN  MergeSet(MergeSet([k \in omitted |-> NULL],
                          EnrichmentPatch(enrichment, curatedLinks)),
                 IF mergedFollowers # NoSignal
                 THEN [socialFollowers |-> mergedFollowers] ELSE EmptyObj)

\* the object of the final contactRef.set (lines 254-280, 439-465)
FinalPatch(data, enrichment, curatedLinks) ==
    LET mergedFollowers == mergeSocialFollowers(GetArr(data, "socialFollowers"),
                                                GetArr(enrichment, "socialFollowers"))
    IN  MergeSet(EnrichmentPatch(enrichment, curatedLinks),
                 IF mergedFollowers # NoSignal
                 THEN [socialFollowers |-> mergedFollowers] ELSE EmptyObj)

\* the done record without the final write
ResFinal_DoneWithoutWrite(r) ==
    /\ runs[r].pc = "final"
    /\ runs' = [runs EXCEPT ![r].pc = "closed", ![r].status = 200]
    /\ events' = Enqueue(r, <<DoneEv>>)
    /\ UNCHANGED <<contact, ing, calls, capture, cp, mrg, fn, trg>>

\* the final write, then the done record (lines 256-283, 441-467)
ResFinal(r) ==
    /\ runs[r].pc = "final"
    /\ contact' = MergeSet(contact, FinalPatch(runs[r].data, runs[r].enrichment, runs[r].links))
    /\ runs' = [runs EXCEPT ![r].pc = "closed", ![r].status = 200]
    /\ events' = Enqueue(r, <<DoneEv>>)
    /\ UNCHANGED <<ing, calls, capture, cp, mrg, fn, trg>>

\* the catch block that also resets the stored research text
ResCatch_ClearsResearch(r) ==
    /\ runs[r].pc \in {"idle", "setRunning", "research", "chunks", "batch", "images",
                       "phaseA", "enrich", "curate", "final"}
    /\ runs' = [runs EXCEPT ![r].pc = "closed", ![r].status = 500]
    /\ events' = Enqueue(r, <<ErrorEv("failed")>>)
    /\ contact' = MergeSet(contact, [deepResearchRaw |-> NULL])
    /\ UNCHANGED <<ing, calls, capture, cp, mrg, fn, trg>>

AwaitPoints ==
    {"idle", "setRunning", "research", "chunks", "batch", "images", "phaseA",
     "enrich", "curate", "final"}

\* an awaited call rejects or a parse throws; the catch block answers
\* (lines 284-292, 468-471)
ResCatch(r) ==
    /\ runs[r].pc \in AwaitPoints
    /\ runs' = [runs EXCEPT ![r].pc = "closed", ![r].status = 500]
    /\ events' = Enqueue(r, <<ErrorEv(MessageAt(runs[r].pc))>>)
    /\ UNCHANGED <<contact, ing, calls, capture, cp, mrg, fn, trg>>

\* the caller closes the connection of a streaming run in progress; the
\* handler has no cancel callback and reads no abort signal (lines 29-30)
CallerCloses ==
    /\ runs["stream"].pc \in AwaitPoints \ {"idle"}
    /\ runs["stream"].open
    /\ runs' = [runs EXCEPT !["stream"].open = FALSE]
    /\ UNCHANGED <<contact, events, ing, calls, capture, cp, mrg, fn, trg>>

\* after the caller has closed, the next controller.enqueue the handler
\* reaches throws; what the handler wrote before it stays written, and the
\* enqueue of the catch block throws as well (lines 66-75, 99-169, 178-193,
\* 256-292).  A runtime that lets enqueue pass is the run going on instead.
ResEnqueueThrows(r) ==
    /\ r = "stream" /\ ~runs[r].open
    /\ runs[r].pc \in {"setRunning", "research", "chunks", "batch", "phaseA", "final"}
    /\ contact' = CASE runs[r].pc = "setRunning" ->
                         MergeSet(contact, [deepResearchStatus |-> "running",
                                            deepResearchError |-> NoError])
                     [] runs[r].pc = "phaseA" -> MergeSet(contact, PhaseAPatch(r))
                     [] runs[r].pc = "final" ->
                         MergeSet(contact, FinalPatch(runs[r].data, runs[r].enrichment,
                                                      runs[r].links))
                     [] OTHER -> contact
    /\ runs' = [runs EXCEPT ![r].pc = "closed", ![r].status = 500]
    /\ UNCHANGED <<events, ing, calls, capture, cp, mrg, fn, trg>>

----------------------------------------------------------------------------
(* Quick capture: app/api/captures/upload, POST and processCaptureAsync *)

Https == <<"h", "t", "t", "p", "s", ":", "/", "/">>
Http == <<"h", "t", "t", "p", ":", "/", "/">>

StartsWith(s, prefix) ==
    Len(s) >= Len(prefix) /\ SubSeq(s, 1, Len(prefix)) = prefix

Letters ==
    {"a", "b", "c", "d", "e", "f", "g", "h", "i", "j", "k", "l", "m", "n", "o", "p",
     "q", "r", "s", "t", "u", "v", "w", "x", "y", "z",
     "A", "B", "C", "D", "E", "F", "G", "H", "I", "J", "K", "L", "M", "N", "O", "P",
     "Q", "R", "S", "T", "U", "V", "W", "X", "Y", "Z"}

\* [\w.-]
IsDomainChar(c) ==
    c \in Letters \cup {"0", "1", "2", "3", "4", "5", "6", "7", "8", "9", "_", ".", "-"}

\* /^[\w.-]+\.[a-z]{2,}([/].*)?$/i
LooksLikeDomain(raw) ==
    \E dot \in 2..Len(raw), last \in 1..Len(raw) :
        /\ raw[dot] = "."
        /\ \A i \in 1..(dot - 1) : IsDomainChar(raw[i])
        /\ last >= dot + 2
        /\ \A i \in (dot + 1)..last : raw[i] \in Letters
        /\ (last = Len(raw) \/ raw[last + 1] = "/")

\* researchImages.normalizeUrl: null is NULL
normalizeLinkUrl(input) ==
    LET raw == Trim(input)
    IN  IF raw = <<>> THEN NULL
        ELSE IF StartsWith(raw, Http) \/ StartsWith(raw, Https) THEN raw
        ELSE IF LooksLikeDomain(raw) THEN Https \o raw
        ELSE NULL

\* enrichment.extraLinks mapped and filtered (lines 415-417)
RECURSIVE FilterLinks(_)
FilterLinks(links) ==
    IF links = <<>> THEN <<>>
    ELSE LET label == Trim(Head(links).label)
             url == normalizeLinkUrl(Head(links).url)
         IN  (IF url # NULL /\ label # <<>> THEN <<[label |-> label, url |-> url]>> ELSE <<>>)
             \o FilterLinks(Tail(links))

\* the contact document as processCaptureAsync creates it (part_009 lines 295-328)
CreatedContact(extractionContact, enableDeepResearch) ==
    [k \in ScalarFieldSet \cup {"notes", "tags", "deepResearchStatus"} |->
        CASE k = "tags" -> Dedupe(TrimTags(GetArr(extractionContact, "tags")), <<>>)
          [] k = "deepResearchStatus" -> IF enableDeepResearch THEN "queued" ELSE "disabled"
          [] OTHER -> IF Nullish(Get(extractionContact, k)) THEN NULL
                      ELSE extractionContact[k]]

NoResult == [content |-> <<>>, search_results |-> <<>>, images |-> <<>>]

CapIdle ==
    [pc |-> "idle", deep |-> FALSE, extraction |-> EmptyObj, research |-> NoResult,
     persisted |-> <<>>, enrichment |-> EmptyObj, error |-> "", failedAt |-> "",
     recoveryFailed |-> FALSE, response |-> 0, content |-> <<>>, modelCalls |-> 0,
     enrichmentContent |-> <<>>, enrichmentCalls |-> 0,
     form |-> NoForm, message |-> "", blobs |-> 0]

CapOff == [CapIdle EXCEPT !.pc = "off"]

\* the request is refused before a capture document exists: by the token, the
\* owner or the crmId (lines 37-62), by validation (lines 64-99), by the CRM
\* lookup (lines 104-113) or by a storage save that rejects after some images
\* were stored (lines 124-141, 187-192).  blobs counts the stored images.
UploadReject(forms) ==
    /\ cp.pc = "idle"
    /\ \E form \in forms :
          \/ \E early \in {Reject(401, "Unauthorized"), Reject(403, "Owner ID mismatch"),
                             Reject(400, "Missing crmId"),
                             Reject(500, "Firebase ID token has expired")} :
                cp' = [cp EXCEPT !.pc = "rejected", !.form = form,
                                 !.response = early.status, !.message = early.message]
          \/ /\ ~validateRequest(form).ok
             /\ cp' = [cp EXCEPT !.pc = "rejected", !.form = form,
                                 !.response = validateRequest(form).status,
                                 !.message = validateRequest(form).message]
          \/ /\ validateRequest(form).ok
             /\ \E late \in {Reject(404, "CRM not found"),
                               Reject(403, "Not a member of this CRM")} :
                   cp' = [cp EXCEPT !.pc = "rejected", !.form = form,
                                    !.response = late.status, !.message = late.message]
          \/ /\ validateRequest(form).ok
             /\ \E stored \in 0..Len(validateRequest(form).imageFiles) :
                   cp' = [cp EXCEPT !.pc = "rejected", !.form = form, !.response = 500,
                                    !.message = "storage save failed", !.blobs = stored]
    /\ UNCHANGED <<contact, capture, ing, calls, runs, events, mrg, fn, trg>>

\* the images are stored, the capture document is created and processing
\* starts (lines 115-186)
UploadAccept(forms) ==
    /\ cp.pc = "idle"
    /\ \E form \in forms, enableDeepResearch \in BOOLEAN :
          /\ validateRequest(form).ok
          /\ capture' = [status |-> "processing", deepResearchEnabled |-> enableDeepResearch]
          /\ cp' = [cp EXCEPT !.pc = "extract", !.deep = enableDeepResearch, !.response = 200,
                              !.form = form,
                              !.blobs = Len(validateRequest(form).imageFiles)]
    /\ UNCHANGED <<contact, ing, calls, runs, events, mrg, fn, trg>>

\* the model answers and the extraction phase parses the completion; a throw
\* goes to the outer catch (lines 247-295, 475-479)
CapExtract(extractions, completions) ==
    /\ cp.pc = "extract"
    /\ \E completion \in completions :
        LET phase == extractionPhase(completion.content, completion.repair)
            answered == [cp EXCEPT !.content = completion.content,
                                   !.modelCalls = phase.modelCalls]
        IN  IF ~phase.ok
            THEN cp' = [answered EXCEPT !.pc = "outerCatch", !.error = phase.message,
                                        !.failedAt = "extract"]
            ELSE \E contactData \in (IF phase.value = <<>> THEN {EmptyObj} ELSE extractions) :
                    cp' = [answered EXCEPT !.pc = "createContact", !.extraction = contactData]
    /\ UNCHANGED <<contact, capture, ing, calls, runs, events, mrg, fn, trg>>

\* lines 300-328
CapCreateContact ==
    /\ cp.pc = "createContact"
    /\ contact' = CreatedContact(cp.extraction, cp.deep)
    /\ cp' = [cp EXCEPT !.pc = "markCapture"]
    /\ UNCHANGED <<capture, ing, calls, runs, events, mrg, fn, trg>>

\* the capture is marked without the id of the contact
CapMarkCapture_NoContactId ==
    /\ cp.pc = "markCapture"
    /\ capture' = MergeSet(capture, [status |-> IF cp.deep THEN "researching" ELSE "ready"])
    /\ cp' = [cp EXCEPT !.pc = IF cp.deep THEN "setRunning" ELSE "end"]
    /\ UNCHANGED <<contact, ing, calls, runs, events, mrg, fn, trg>>

\* lines 332-343
CapMarkCapture ==
    /\ cp.pc = "markCapture"
    /\ capture' = MergeSet(capture, [status |-> IF cp.deep THEN "researching" ELSE "ready",
                                     resultContactId |-> "contactId"])
    /\ cp' = [cp EXCEPT !.pc = IF cp.deep THEN "setRunning" ELSE "end"]
    /\ UNCHANGED <<contact, ing, calls, runs, events, mrg, fn, trg>>

\* err.message of what is thrown while processing is at pc
CapMessageAt(pc) ==
    CASE pc = "extract" -> "OpenRouter error"
      [] pc = "research" -> "Perplexity Deep Research returned empty content"
      [] pc = "images" -> "storage save failed"
      [] pc = "enrich" -> "OpenRouter error"
      [] OTHER -> "firestore write failed"

OuterSteps == {"extract", "createContact", "markCapture"}

ResearchSteps == {"setRunning", "research", "images", "phaseA", "enrich", "final", "ready"}

\* a step outside the research block throws: the outer catch rethrows to the
\* .catch of the caller (lines 475-479, 171)
CapFail ==
    /\ cp.pc \in OuterSteps
    /\ cp' = [cp EXCEPT !.pc = "outerCatch", !.error = CapMessageAt(cp.pc), !.failedAt = cp.pc]
    /\ UNCHANGED <<contact, capture, ing, calls, runs, events, mrg, fn, trg>>

\* lines 346-354
CapSetRunning ==
    /\ cp.pc = "setRunning"
    /\ contact' = MergeSet(contact,
                    [deepResearchStatus |-> "running",
                     deepResearchPrompt |-> "Deep research requested via Quick Capture."])
    /\ cp' = [cp EXCEPT !.pc = "research"]
    /\ UNCHANGED <<capture, ing, calls, runs, events, mrg, fn, trg>>

\* lines 356-366
CapResearch(completions) ==
    /\ cp.pc = "research"
    /\ \E completion \in completions :
          LET res == performDeepResearch(completion)
          IN  cp' = IF res.ok
                    THEN [cp EXCEPT !.pc = "images",
                                    !.research = [content |-> res.content,
                                                  search_results |-> res.search_results,
                                                  images |-> res.images]]
                    ELSE [cp EXCEPT !.pc = "innerCatch", !.error = res.message,
                                    !.failedAt = "research"]
    /\ UNCHANGED <<contact, capture, ing, calls, runs, events, mrg, fn, trg>>

\* lines 368-373
CapImages ==
    /\ cp.pc = "images"
    /\ \E saved \in SubLists(Slice(cp.research.images, MaxImages)) :
          cp' = [cp EXCEPT !.pc = "phaseA", !.persisted = saved]
    /\ UNCHANGED <<contact, capture, ing, calls, runs, events, mrg, fn, trg>>

\* lines 375-382
CapPhaseA ==
    /\ cp.pc = "phaseA"
    /\ contact' = MergeSet(contact, [deepResearchRaw |-> cp.research.content,
                                     researchImages |-> cp.persisted])
    /\ cp' = [cp EXCEPT !.pc = "enrich"]
    /\ UNCHANGED <<capture, ing, calls, runs, events, mrg, fn, trg>>

\* the enrichment completion arrives and is parsed; a throw goes to the
\* research catch block (lines 384-405, 455)
CapEnrich(enrichments, completions) ==
    /\ cp.pc = "enrich"
    /\ \E enrichmentContent \in completions :
        LET phase == enrichmentPhase(enrichmentContent)
            answered == [cp EXCEPT !.enrichmentContent = enrichmentContent,
                                   !.enrichmentCalls = phase.modelCalls]
        IN  IF ~phase.ok
            THEN cp' = [answered EXCEPT !.pc = "innerCatch", !.error = phase.message,
                                        !.failedAt = "enrich"]
            ELSE \E enrichment \in (IF phase.value = <<>> THEN {DefaultEnrichment}
                                    ELSE enrichments) :
                    cp' = [answered EXCEPT !.pc = "final", !.enrichment = enrichment]
    /\ UNCHANGED <<contact, capture, ing, calls, runs, events, mrg, fn, trg>>

\* lines 407-445
CapFinal ==
    /\ cp.pc = "final"
    /\ contact' = MergeSet(contact,
                    EnrichmentPatch(cp.enrichment, FilterLinks(cp.enrichment.extraLinks)))
    /\ cp' = [cp EXCEPT !.pc = "ready"]
    /\ UNCHANGED <<capture, ing, calls, runs, events, mrg, fn, trg>>

\* lines 448-454
CapReady ==
    /\ cp.pc = "ready"
    /\ capture' = MergeSet(capture, [status |-> "ready"])
    /\ cp' = [cp EXCEPT !.pc = "end"]
    /\ UNCHANGED <<contact, ing, calls, runs, events, mrg, fn, trg>>

\* a step of the research block throws (line 455)
CapResearchFail ==
    /\ cp.pc \in ResearchSteps
    /\ cp' = [cp EXCEPT !.pc = "innerCatch", !.error = CapMessageAt(cp.pc), !.failedAt = cp.pc]
    /\ UNCHANGED <<contact, capture, ing, calls, runs, events, mrg, fn, trg>>

\* the research catch block without its writes
CapInnerCatch_Swallows ==
    /\ cp.pc = "innerCatch"
    /\ cp' = [cp EXCEPT !.pc = "end"]
    /\ UNCHANGED <<contact, capture, ing, calls, runs, events, mrg, fn, trg>>

\* the research catch block records the error on the contact (lines 456-463);
\* the write may fail itself, which the outer catch rethrows
CapInnerCatch ==
    /\ cp.pc = "innerCatch"
    /\ \/ /\ contact' = MergeSet(contact, [deepResearchStatus |-> "error",
                                           deepResearchError |-> cp.error])
          /\ cp' = [cp EXCEPT !.pc = "innerCatchReady"]
       \/ /\ cp' = [cp EXCEPT !.pc = "outerCatch", !.recoveryFailed = TRUE]
          /\ UNCHANGED contact
    /\ UNCHANGED <<capture, ing, calls, runs, events, mrg, fn, trg>>

\* the research catch block marks the capture ready (lines 466-472)
CapInnerCatchReady ==
    /\ cp.pc = "innerCatchReady"
    /\ \/ /\ capture' = MergeSet(capture, [status |-> "ready"])
          /\ cp' = [cp EXCEPT !.pc = "end"]
       \/ /\ cp' = [cp EXCEPT !.pc = "outerCatch", !.recoveryFailed = TRUE]
          /\ UNCHANGED capture
    /\ UNCHANGED <<contact, ing, calls, runs, events, mrg, fn, trg>>

\* the .catch of the caller marks the capture failed; its write is not awaited
\* and may fail (lines 171-181)
CapOuterCatch ==
    /\ cp.pc = "outerCatch"
    /\ \/ /\ capture' = MergeSet(capture, [status |-> "error", error |-> cp.error])
          /\ cp' = [cp EXCEPT !.pc = "end"]
       \/ /\ cp' = [cp EXCEPT !.pc = "end", !.recoveryFailed = TRUE]
          /\ UNCHANGED capture
    /\ UNCHANGED <<contact, ing, calls, runs, events, mrg, fn, trg>>

----------------------------------------------------------------------------
(* The on-create trigger of captures/{captureId}: functions index.ts
   processCaptureOnCreate (part_015), and the retry of the capture page
   (part_013 handleRetry) *)

\* contact is the contact document the trigger creates, a document of its own
TriggerIdle ==
    [pc |-> "idle", extraction |-> EmptyObj, contact |-> EmptyObj, error |-> "",
     content |-> <<>>, modelCalls |-> 0]

TriggerOff == [TriggerIdle EXCEPT !.pc = "off"]

\* the capture document was created: the function is invoked (lines 53-65;
\* the upload route always sets ownerId)
TriggerFire ==
    /\ trg.pc = "idle"
    /\ capture # EmptyObj
    /\ trg' = [trg EXCEPT !.pc = "mark"]
    /\ UNCHANGED <<contact, ing, calls, runs, events, capture, cp, mrg, fn>>

\* "Mark as processing" (lines 78-85); a rejected write ends the function
TriggerMarkProcessing ==
    /\ trg.pc = "mark"
    /\ \/ /\ capture' = MergeSet(capture, [status |-> "processing"])
          /\ trg' = [trg EXCEPT !.pc = "extract"]
       \/ /\ trg' = [trg EXCEPT !.pc = "end", !.error = "firestore write failed"]
          /\ UNCHANGED capture
    /\ UNCHANGED <<contact, ing, calls, runs, events, cp, mrg, fn>>

\* the model answers and the extraction phase parses the completion
\* (lines 87-158)
TriggerExtract(extractions, completions) ==
    /\ trg.pc = "extract"
    /\ \E completion \in completions :
        LET phase == extractionPhase(completion.content, completion.repair)
            answered == [trg EXCEPT !.content = completion.content,
                                    !.modelCalls = phase.modelCalls]
        IN  IF ~phase.ok
            THEN trg' = [answered EXCEPT !.pc = "catch", !.error = phase.message]
            ELSE \E contactData \in (IF phase.value = <<>> THEN {EmptyObj} ELSE extractions) :
                    trg' = [answered EXCEPT !.pc = "createContact",
                                            !.extraction = contactData]
    /\ UNCHANGED <<contact, ing, calls, runs, events, capture, cp, mrg, fn>>

\* the contact document of the trigger (lines 160-192)
TriggerContact(extractionContact) ==
    [k \in ScalarFieldSet \cup {"notes", "tags"} |->
        CASE k = "tags" -> Dedupe(TrimTags(GetArr(extractionContact, "tags")), <<>>)
          [] OTHER -> IF Nullish(Get(extractionContact, k)) THEN NULL
                      ELSE extractionContact[k]]

TriggerCreateContact ==
    /\ trg.pc = "createContact"
    /\ trg' = [trg EXCEPT !.pc = "markReady", !.contact = TriggerContact(trg.extraction)]
    /\ UNCHANGED <<contact, ing, calls, runs, events, capture, cp, mrg, fn>>

\* lines 194-202
TriggerMarkReady ==
    /\ trg.pc = "markReady"
    /\ capture' = MergeSet(capture, [status |-> "ready",
                                     resultContactId |-> "triggerContactId"])
    /\ trg' = [trg EXCEPT !.pc = "end"]
    /\ UNCHANGED <<contact, ing, calls, runs, events, cp, mrg, fn>>

\* a download, a model call or a write inside the try block throws (line 203)
TriggerFail ==
    /\ trg.pc \in {"extract", "createContact", "markReady"}
    /\ trg' = [trg EXCEPT !.pc = "catch",
                          !.error = IF trg.pc = "extract" THEN "OpenRouter error"
                                    ELSE "firestore write failed"]
    /\ UNCHANGED <<contact, ing, calls, runs, events, capture, cp, mrg, fn>>

\* the catch block marks the capture failed (lines 203-214); its write may
\* reject
TriggerCatch ==
    /\ trg.pc = "catch"
    /\ trg' = [trg EXCEPT !.pc = "end"]
    /\ \/ capture' = MergeSet(capture, [status |-> "error", error |-> trg.error])
       \/ UNCHANGED capture
    /\ UNCHANGED <<contact, ing, calls, runs, events, cp, mrg, fn>>

\* part_013 handleRetry, lines 115-126: the page shows the capture as failed
\* and the user retries; error: deleteField()
CaptureRetry ==
    /\ Has(capture, "status") /\ capture.status = "error"
    /\ capture' = [k \in (DOMAIN capture) \ {"error"} |->
                      IF k = "status" THEN "queued" ELSE capture[k]]
    /\ UNCHANGED <<contact, ing, calls, runs, events, cp, mrg, fn, trg>>

----------------------------------------------------------------------------
(* Link curation: app/api/_utils/curateExtraLinks.ts *)

\* the end of the longest run of characters outside stops that starts at i
\* (i - 1 when the run is empty)
RECURSIVE RunEnd(_, _, _)
RunEnd(text, i, stops) ==
    IF i <= Len(text) /\ text[i] \notin stops THEN RunEnd(text, i + 1, stops) ELSE i - 1

\* https?:\/\/ matches at i: the position after it, or 0
SchemeEnd(text, i) ==
    IF i + Len(Https) - 1 <= Len(text) /\ SubSeq(text, i, i + Len(Https) - 1) = Https
    THEN i + Len(Https)
    ELSE IF i + Len(Http) - 1 <= Len(text) /\ SubSeq(text, i, i + Len(Http) - 1) = Http
    THEN i + Len(Http)
    ELSE 0

\* /(https?:\/\/[^\s)<>\]]+)/g from position i on
RECURSIVE BareUrls(_, _)
BareUrls(text, i) ==
    IF i > Len(text) THEN <<>>
    ELSE LET from == SchemeEnd(text, i)
             to == RunEnd(text, from, {" ", "\n", ")", "<", ">", "]"})
         IN  IF from # 0 /\ to >= from
             THEN <<SubSeq(text, i, to)>> \o BareUrls(text, to + 1)
             ELSE BareUrls(text, i + 1)

\* /\[[^\]]*\]\((https?:\/\/[^)\s]+)\)/g from position i on
RECURSIVE MarkdownUrls(_, _)
MarkdownUrls(text, i) ==
    IF i > Len(text) THEN <<>>
    ELSE LET close == RunEnd(text, i + 1, {"]"}) + 1
             from == IF text[i] = "[" /\ close + 1 <= Len(text) /\ text[close + 1] = "("
                     THEN SchemeEnd(text, close + 2) ELSE 0
             to == RunEnd(text, from, {")", " ", "\n"})
         IN  IF from # 0 /\ to >= from /\ to + 1 <= Len(text) /\ text[to + 1] = ")"
             THEN <<SubSeq(text, close + 2, to)>> \o MarkdownUrls(text, to + 2)
             ELSE MarkdownUrls(text, i + 1)

\* lines 9-26
extractUrlsFromText(text) ==
    IF text = <<>> THEN <<>> ELSE MarkdownUrls(text, 1) \o BareUrls(text, 1)

\* lines 28-39; seen is the set of the urls pushed so far
RECURSIVE uniqByUrl(_, _)
uniqByUrl(items, seen) ==
    IF items = <<>> THEN <<>>
    ELSE LET it == Head(items)
             url == normalizeLinkUrl(it.url)
         IN  IF url = NULL \/ url \in seen THEN uniqByUrl(Tail(items), seen)
             ELSE <<[it EXCEPT !.url = url]>> \o uniqByUrl(Tail(items), seen \cup {url})

\* lines 41-49: links is a list or NULL (not an array); the filter reads
\* l.url.length, which throws on the null that normalizeUrl returns
RECURSIVE FilterRanked(_)
FilterRanked(mapped) ==
    IF mapped = <<>> THEN [ok |-> TRUE, value |-> <<>>]
    ELSE IF Head(mapped).label = <<>> THEN FilterRanked(Tail(mapped))
    ELSE IF Head(mapped).url = NULL
    THEN Throw("Cannot read properties of null (reading 'length')")
    ELSE LET rest == FilterRanked(Tail(mapped))
         IN  IF rest.ok
             THEN [ok |-> TRUE,
                   value |-> (IF Head(mapped).url # <<>> THEN <<Head(mapped)>> ELSE <<>>)
                             \o rest.value]
             ELSE rest

toExtraLinks(links) ==
    IF links = NULL THEN [ok |-> TRUE, value |-> <<>>]
    ELSE FilterRanked([i \in 1..Len(links) |->
                          [label |-> Trim(OrEmpty(Get(links[i], "label"))),
                           url |-> normalizeLinkUrl(Get(links[i], "url"))]])

Min(a, b) == IF a < b THEN a ELSE b
Max(a, b) == IF a > b THEN a ELSE b

\* the clamp without its upper limit
ClampMaxLinks_NoCap(args) == Max(3, IF Has(args, "maxLinks") THEN args.maxLinks ELSE 12)

\* Math.max(3, Math.min(args.maxLinks ?? 12, 20)) (line 67)
ClampMaxLinks(args) == Max(3, Min(IF Has(args, "maxLinks") THEN args.maxLinks ELSE 12, 20))

\* slice(0, 80)
PoolLimit == 80

Candidate(url, title, source) == [url |-> url, title |-> title, source |-> source]

\* lines 69-82
Candidates(args) ==
    (LET withUrl == SelectSeq(args.sources, LAMBDA src : OrEmpty(Get(src, "url")) # <<>>)
     IN  [i \in 1..Len(withUrl) |->
            Candidate(withUrl[i].url,
                      IF Nullish(Get(withUrl[i], "title")) THEN NULL ELSE withUrl[i].title,
                      "perplexity")])
    \o (LET urls == extractUrlsFromText(args.researchText)
        IN  [i \in 1..Len(urls) |-> Candidate(urls[i], NULL, "researchText")])
    \o [i \in 1..Len(args.enrichmentExtraLinks) |->
          Candidate(args.enrichmentExtraLinks[i].url, args.enrichmentExtraLinks[i].label,
                    "enrichment")]
    \o [i \in 1..Len(args.existingExtraLinks) |->
          Candidate(args.existingExtraLinks[i].url, args.existingExtraLinks[i].label,
                    "existing")]

\* the candidate pool handed to the ranking service (line 84)
CandidatePool(args) == Slice(uniqByUrl(Candidates(args), {}), PoolLimit)

\* the value of parsed?.links: the ranked list when the members conform, no
\* array otherwise
ParsedLinks(parsed, ranked) == IF parsed = <<Conforming>> THEN ranked ELSE NULL

\* lines 119-207 once the ranking call has answered with content (NULL: no
\* content); repair is the answer to the repair call, ranked the links the
\* members stand for
curateAnswer(args, content, repair, ranked) ==
    LET first == IF content = NULL \/ content = <<>> THEN Throw("Empty content")
                 ELSE safeParseModelJson(content)
        parsed == IF first.ok THEN first
                  ELSE IF repair = Rejects THEN Throw("OpenRouter error")
                  ELSE safeParseModelJson(repair)
        made == IF first.ok THEN 1 ELSE 2
    IN  IF ~parsed.ok THEN parsed @@ [modelCalls |-> made]
        ELSE LET links == toExtraLinks(ParsedLinks(parsed.value, ranked))
             IN  IF links.ok
                 THEN [ok |-> TRUE, value |-> Slice(links.value, ClampMaxLinks(args)),
                       modelCalls |-> made]
                 ELSE links @@ [modelCalls |-> made]

----------------------------------------------------------------------------
(* Input samples *)

sAnn == <<"a", "n", "n">>
sAnnCap == <<"A", "n", "n", " ">>
sBob == <<"b", "o", "b">>
sAnnB == <<"a", "n", "n", " ", "b">>
sAnnB2 == <<"A", "n", "n", " ", " ", "b">>
sB == <<"b">>
sX == <<"x">>
eA == <<"a", "@", "x">>
eA2 == <<" ", "A", "@", "X">>
eB == <<"b", "@", "x">>
p1 == <<"+", "1", " ", "5">>
p1b == <<"+", "1", "5">>
p2 == <<"6">>
pNA == <<"n", "/", "a">>
p1Plus == <<"+", "1", "+", "5">>
uA == <<"u", ".", "x">>
uA2 == <<"U", ".", "x", " ">>
uB == <<"v", ".", "x">>
nA == <<"A">>
nB == <<" ", "B">>
tVip == <<"v", "i", "p">>
tVip2 == <<" ", "v", "i", "p">>
tNew == <<"n", "e", "w">>
tOld == <<"o", "l", "d">>
hAt == <<"@", "h">>
lblL == <<"L">>
mSubs == <<"S", "u", "b", "s">>

F(platform, n) == [platform |-> platform, count |-> Num(n)]
With(obj, k, v) == MergeSet(obj, [x \in {k} |-> v])

\* raw follower entries as a model may return them
FollowerSamples ==
    { F("instagram", 100),
      F("instagram", 50),
      With(F("instagram", 50), "handle", hAt),
      With(F("twitter", 10), "url", uA),
      F("x", 10),
      With(F("x", 10), "label", lblL),
      With(F("youtube", 7) , "metric", mSubs),
      [platform |-> "instagram"],
      [platform |-> "x", count |-> 0 - Num(1)],
      [platform |-> "tiktok", count |-> Num(1) + 1] }

ScalarSamples ==
    [fullName |-> {sAnnB, sAnnB2, sBob},
     firstName |-> {sAnn, sBob},
     lastName |-> {sB},
     jobTitle |-> {sAnn, sAnnCap, sBob},
     companyName |-> {sAnn, sBob},
     email |-> {eA, eA2, eB},
     phone |-> {p1, p1b, p2, pNA, p1Plus},
     linkedInUrl |-> {uA, uA2, uB},
     website |-> {uA, uB},
     location |-> {sAnn, sAnnCap}]

One(k, v) == [x \in {k} |-> v]

ScalarAtoms == UNION { {One(k, v) : v \in ScalarSamples[k]} : k \in ScalarFieldSet }

NotesAtoms == {One("notes", nA), One("notes", nB)}

TagsAtoms == {One("tags", <<tVip>>), One("tags", <<tVip2, tNew>>)}

FollowersAtoms ==
    { One("socialFollowers", <<F("instagram", 100)>>),
      One("socialFollowers", <<F("instagram", 50), With(F("twitter", 10), "url", uA)>>),
      One("socialFollowers", <<[platform |-> "x", count |-> 0 - Num(1)]>>) }

Atoms == ScalarAtoms \cup NotesAtoms \cup TagsAtoms \cup FollowersAtoms \cup {EmptyObj}

\* extractions that set at most one property, at most two properties
SingleExtractions == Atoms
ExtractionSamples == {MergeSet(a, b) : a \in Atoms, b \in Atoms}

\* extractions about notes, tags and followers only
NarrowExtractions ==
    {MergeSet(a, b) : a \in NotesAtoms \cup {EmptyObj},
                      b \in { One("tags", <<tVip2, tNew>>),
                               One("socialFollowers", <<F("instagram", 100)>>),
                               One("socialFollowers",
                                   <<F("instagram", 50), With(F("twitter", 10), "url", uA)>>),
                               EmptyObj }}

\* a created contact to which an earlier ingest has added followers
StoredContact(e) ==
    LET created == CreatedContact(e, FALSE)
        entries == FollowersPatch(created, e)
    IN  MergeSet(created, FromEntries(entries))

SimpleContacts == {StoredContact(e) : e \in SingleExtractions}
ContactSamples == {StoredContact(e) : e \in ExtractionSamples}

\* the extractions tried against a snapshot: three properties in all
ExtractionsFor(snap) ==
    IF snap \in SimpleContacts THEN ExtractionSamples ELSE SingleExtractions

NarrowContacts == {StoredContact(e) : e \in NarrowExtractions}

BlankContact == CreatedContact(EmptyObj, FALSE)

ResearchContacts ==
    { StoredContact(EmptyObj),
      StoredContact(One("notes", nA)),
      StoredContact(One("tags", <<tOld>>)),
      StoredContact(One("socialFollowers",
                        <<F("instagram", 50), With(F("twitter", 10), "url", uA)>>)) }

\* research inputs
sT == <<"t">>
sBlank == <<" ">>
cA == <<"a">>
cB == <<"b">>
cAB == <<"a", "b">>
sSum == <<"S", " ">>
src1 == [title |-> sT, url |-> uA]
img1 == [image_url |-> uA]
img2 == [image_url |-> uB]
lnk1 == [label |-> lblL, url |-> uA]
imgUrl == [url |-> uB, title |-> sT]
imgNoSrc == [title |-> sT]

Chunk(object) == [object |-> object]

\* chunks as the research service may send them
ChunkSamples ==
    { With(Chunk("chat.reasoning"), "reasoning_steps", <<sT, sBlank>>),
      Chunk("chat.reasoning.done"),
      MergeSet(Chunk("chat.reasoning.done"), [search_results |-> <<src1>>, images |-> <<img1>>]),
      With(Chunk("chat.completion.chunk"), "delta", cA),
      With(Chunk("chat.completion.chunk"), "delta", cB),
      Chunk("chat.completion.chunk"),
      Chunk("chat.completion.done"),
      With(Chunk("chat.completion.done"), "final", cAB),
      MergeSet(Chunk("chat.completion.done"), [final |-> sBlank, search_results |-> <<>>]) }

NarrowChunks == { Chunk("chat.completion.done") }

\* completions the research service returns to a batch call
ResultSamples ==
    { [content |-> c, search_results |-> sr, images |-> im] :
        c \in {<<>>, cA, cAB}, sr \in {<<>>, <<src1>>}, im \in {<<>>, <<img1, img2>>} }

NarrowResults == { [content |-> cA, search_results |-> <<>>, images |-> <<>>] }

\* a value of contactEnrichmentSchema, its defaults filled in
Enrichment(patch, summary, followers, links) ==
    [contactPatch |-> patch, summary |-> summary, researchFields |-> EmptyObj,
     socialFollowers |-> followers, extraLinks |-> links]

EnrichmentSamples ==
    { Enrichment(EmptyObj, NULL, <<>>, <<>>),
      Enrichment(One("email", eB), sSum, <<F("instagram", 100)>>, <<>>),
      Enrichment(MergeSet([email |-> NULL, notes |-> NULL], One("tags", <<tVip2, tNew, tVip>>)),
                 sBlank, <<With(F("twitter", 10), "url", uA), F("instagram", 50)>>, <<lnk1>>),
      Enrichment(One("notes", nB), sSum, <<[platform |-> "x", count |-> 0 - Num(1)]>>, <<>>) }

NarrowEnrichments ==
    { Enrichment(EmptyObj, NULL, <<>>, <<>>),
      Enrichment(EmptyObj, NULL, <<F("twitter", 10), F("instagram", 70), F("x", 20)>>, <<>>) }

\* extractions about followers only
FollowerExtractions ==
    { EmptyObj,
      One("socialFollowers", <<F("instagram", 100)>>),
      One("socialFollowers", <<F("twitter", 30), With(F("x", 30), "url", uA)>>),
      One("socialFollowers", <<[platform |-> "x", count |-> 0 - Num(1)]>>) }

FollowerContacts ==
    { BlankContact,
      StoredContact(One("socialFollowers", <<F("instagram", 50), F("twitter", 10)>>)) }

\* extractions for a capture
CaptureExtractions ==
    { EmptyObj,
      One("fullName", sAnnB),
      MergeSet(One("notes", nA), One("tags", <<tVip2, tNew, tVip>>)),
      MergeSet(One("email", eA), One("socialFollowers", <<F("instagram", 100)>>)) }

LinkSamples == {<<>>, <<lnk1>>}

\* extractions and enrichments about tags only
TagExtractions ==
    { EmptyObj,
      One("tags", <<tVip2, tNew, tVip>>),
      One("tags", <<sBlank>>),
      One("tags", <<tOld, tVip>>) }

TagEnrichments ==
    { Enrichment(EmptyObj, NULL, <<>>, <<>>),
      Enrichment(One("tags", <<tNew, tVip2, sBlank, tNew>>), NULL, <<>>, <<>>) }

\* contacts with identity fields and enrichments that omit, clear or set them
FieldContacts ==
    { StoredContact(MergeSet([email |-> eA, phone |-> p1], One("fullName", sAnnB))),
      StoredContact(One("website", uA)) }

FieldEnrichments ==
    { Enrichment(EmptyObj, NULL, <<>>, <<>>),
      Enrichment([email |-> NULL, fullName |-> sBob], NULL, <<>>, <<>>),
      Enrichment([email |-> eB, phone |-> NULL, website |-> uB, location |-> sAnn],
                 sSum, <<>>, <<>>) }

\* completions: the first answer of the model and the answer to the repair
Completion(content, repair) == [content |-> content, repair |-> repair]

tObject == <<"{", Conforming, "}">>
tEmptyObject == <<"{", " ", "}">>
tViolating == <<"{", Violating, "}">>
\* a code fence; the apostrophe stands for the backquote
tFence == <<"'", "'", "'", "j", "s", "o", "n", "\n">>
tFenced == tFence \o tObject \o <<"\n", "'", "'", "'">>
tProse == <<"O", "k", ":", " ">>
tProseLed == tProse \o tObject
tBracedProse == <<"a", "{", "b", "}", ":", " ">> \o tObject
tNoJson == <<"n", "o">>
tUnclosed == <<"{", Conforming>>
tReversed == <<"}", " ", "{">>
tTwoObjects == tObject \o <<" ">> \o tObject

Repeat(x, n) == [i \in 1..n |-> x]

\* image batches handed to persistResearchImages
ImageBatches ==
    { <<>>, <<img1>>, <<img1, imgNoSrc, imgUrl>>,
      Repeat(img1, MaxImages + 1), <<imgNoSrc>> \o Repeat(img2, MaxImages) }

PersistParams ==
    {[images |-> b] : b \in ImageBatches}
    \cup {[images |-> b, maxImages |-> MaxImages] : b \in ImageBatches}

\* link curation inputs
kA == Https \o <<"a", ".", "c", "o">>
kACaps == Https \o <<"A", ".", "c", "o">>
kATracked == kA \o <<"?", "u", "t", "m", "_", "i", "d", "=", "1">>
kB == Http \o <<"b", ".", "c", "o">>
kBare == <<"a", ".", "c", "o">>
kFtp == <<"f", "t", "p", ":", "/", "/", "a", ".", "c", "o">>

\* "[t](https://a.co?utm_id=1) http://b.co"
tResearch == <<"[", "t", "]", "(">> \o kATracked \o <<")", " ">> \o kB

Ranked(label, url) == [label |-> label, url |-> url]

CurateArgs ==
    {MergeSet([sources |-> sources, researchText |-> text, enrichmentExtraLinks |-> enriched,
               existingExtraLinks |-> existing], maxLinks) :
        sources \in {<<>>, <<[title |-> sT, url |-> kA]>>,
                     <<[url |-> kA], [title |-> NULL, url |-> kACaps], [title |-> sT]>>},
        text \in {<<>>, tResearch},
        enriched \in {<<>>, <<Ranked(lblL, kBare)>>},
        existing \in {<<>>, <<Ranked(lblL, kA)>>, <<Ranked(lblL, kFtp)>>},
        maxLinks \in {EmptyObj} \cup {[maxLinks |-> n] : n \in {1, 3, 12, 20, 25}}}

\* ranking results: n good links, a link with an empty label, a link whose
\* url normalization rejects, a link without url
RankedLists ==
    {Repeat(Ranked(lblL, kA), n) : n \in {0, 2, 4, 13, 21}}
    \cup {<<Ranked(sBlank, kA), Ranked(lblL, kBare)>>, <<Ranked(lblL, kB), Ranked(lblL, kFtp)>>,
          <<One("label", lblL), Ranked(lblL, kA)>>}

RankingContents == {NULL, tObject, tFenced, tEmptyObject, tViolating, tNoJson}

\* the lists curateExtraLinks returns for a ranking answer that parses
CuratedLists ==
    { curateAnswer(EmptyObj, tObject, tObject, ranked).value :
        ranked \in {r \in RankedLists : curateAnswer(EmptyObj, tObject, tObject, r).ok} }

\* enrichments about links only: none, a blank label and a rejected url among
\* good links, the same url under two labels
LinkEnrichments ==
    { Enrichment(EmptyObj, NULL, <<>>, <<>>),
      Enrichment(EmptyObj, NULL, <<>>,
                 <<Ranked(sBlank, kA), Ranked(lblL, kFtp), Ranked(lblL, kBare)>>),
      Enrichment(EmptyObj, NULL, <<>>, <<Ranked(lblL, kA), Ranked(sT, kA)>>) }

RankingRepairs == {tObject, tNoJson, Rejects}

\* request forms
Form(text, images) == [text |-> text, images |-> images]
File(size, type) == [size |-> size, type |-> type]

fPng == File(1, "image/png")
fBig == File(MAX_BYTES_PER_IMAGE + 1, "image/jpeg")
fMax == File(MAX_BYTES_PER_IMAGE, "image/webp")
fGif == File(1, "image/gif")

\* the number of image fields a client sends
MaxFields == 7

\* forms with the text alone
PlainForms == {Form(sT, <<>>)}

\* n images, one of them being any file or missing
FormSamples ==
    UNION {{Form(text, [Repeat(fPng, n) EXCEPT ![k] = file]) :
                text \in {<<>>, sBlank, sT}, k \in {1, n},
                file \in {fPng, fBig, fMax, fGif, NoFile}} :
           n \in {1, MAX_IMAGES, MaxFields}}
    \cup {Form(text, <<>>) : text \in {<<>>, sBlank, sT}}

\* the model answers with the object alone
PlainCompletions == {Completion(tObject, <<>>)}
PlainTexts == {tObject}

CompletionTexts ==
    {tObject, tEmptyObject, tViolating, tFenced, tProseLed, tBracedProse, tNoJson,
     tUnclosed, tReversed, tTwoObjects}

RepairTexts == {tObject, tFenced, tViolating, tNoJson, Rejects}

CompletionSamples ==
    {Completion(content, repair) : content \in CompletionTexts, repair \in RepairTexts}
NarrowLinks == {<<>>}

----------------------------------------------------------------------------
(* Follower-merge harness *)

MaxListLen == 2

RECURSIVE ListsUpTo(_, _)
ListsUpTo(S, n) ==
    IF n = 0 THEN {<<>>}
    ELSE LET shorter == ListsUpTo(S, n - 1)
         IN  shorter \cup {Append(l, e) : l \in shorter, e \in S}

\* entries for the merge harness
MergeEntries ==
    { F("instagram", 100),
      F("instagram", 50),
      F("twitter", 10),
      With(F("x", 10), "url", uA),
      With(F("x", 10), "label", lblL),
      [platform |-> "instagram"],
      [platform |-> "x", count |-> 0 - Num(1)] }

mFans == <<"f", "a", "n", "s">>
t12 == <<"1", "2">>

\* raw entries whose count or metric needs coercion
RawEntries ==
    { F("instagram", 100),
      With(F("youtube", 7), "metric", mSubs),
      With(F("youtube", 7), "metric", mFans),
      [platform |-> "tiktok", count |-> Num(1) + 1],
      [platform |-> "instagram"],
      [platform |-> "x", count |-> 0 - Num(1)],
      [platform |-> "x", countText |-> t12],
      [platform |-> "x", countText |-> pNA] }

FnIdle == [name |-> "none", pc |-> "idle"]

MergeIdle == [pc |-> "idle", existing |-> <<>>, incoming |-> <<>>, result |-> <<>>]

MergeCall ==
    /\ mrg.pc = "call"
    /\ mrg' = [mrg EXCEPT !.pc = "returned",
                          !.result = mergeSocialFollowers(mrg.existing, mrg.incoming)]
    /\ UNCHANGED <<contact, ing, calls, runs, events, capture, cp, fn, trg>>

----------------------------------------------------------------------------
(* Harness: one research result through the streaming and the batch backend *)

\* results the research service may hold for a brief
ServiceResults ==
    { [content |-> c, search_results |-> sr, images |-> im] :
        c \in {<<>>, sBlank, cA, cAB}, sr \in {<<>>, <<src1>>}, im \in {<<>>, <<img1>>} }

\* the content as one delta chunk, or as one delta chunk a character
DeltaChunks(content, whole) ==
    IF whole
    THEN (IF content = <<>> THEN <<>>
          ELSE <<With(Chunk("chat.completion.chunk"), "delta", content)>>)
    ELSE [i \in 1..Len(content) |->
              With(Chunk("chat.completion.chunk"), "delta", <<content[i]>>)]

\* the result as the concise stream delivers it: sources and images on the
\* reasoning.done or on the completion.done chunk, the final message with or
\* without the content
StreamOf(res, whole, metaOn, withFinal) ==
    LET meta == [search_results |-> res.search_results, images |-> res.images]
    IN  << MergeSet(Chunk("chat.reasoning.done"),
                    IF metaOn = "reasoning" THEN meta ELSE EmptyObj) >>
        \o DeltaChunks(res.content, whole)
        \o << MergeSet(MergeSet(Chunk("chat.completion.done"),
                                IF metaOn = "completion" THEN meta ELSE EmptyObj),
                       IF withFinal THEN [final |-> res.content] ELSE EmptyObj) >>

\* one iteration of the chunk loop of the streaming backend (lines 99-142)
BackendChunk ==
    /\ fn.name = "backends" /\ fn.pc = "loop"
    /\ fn.rest # <<>>
    /\ fn' = [fn EXCEPT !.rest = Tail(@),
                        !.fullContent = ChunkContent(@, Head(fn.rest)),
                        !.images = ChunkField(@, Head(fn.rest), "images"),
                        !.searchResults = ChunkField(@, Head(fn.rest), "search_results")]
    /\ UNCHANGED <<contact, ing, calls, runs, events, capture, cp, mrg, trg>>

\* the batch backend on the same result (lines 146-160)
BackendBatch ==
    /\ fn.name = "backends" /\ fn.pc = "loop"
    /\ fn.rest = <<>>
    /\ fn' = [fn EXCEPT !.pc = "compared", !.batch = performDeepResearch(fn.result)]
    /\ UNCHANGED <<contact, ing, calls, runs, events, capture, cp, mrg, trg>>

----------------------------------------------------------------------------
(* Harness: one call of curateExtraLinks *)

\* lines 67-85: the pool is built; an empty pool returns at once
CuratePool ==
    /\ fn.name = "curate" /\ fn.pc = "called"
    /\ LET pool == CandidatePool(fn.args)
       IN  fn' = IF pool = <<>>
                 THEN [fn EXCEPT !.pc = "returned", !.pool = pool,
                                 !.answer = [ok |-> TRUE, value |-> <<>>, modelCalls |-> 0]]
                 ELSE [fn EXCEPT !.pc = "ranking", !.pool = pool]
    /\ UNCHANGED <<contact, ing, calls, runs, events, capture, cp, mrg, trg>>

\* lines 119-207: the ranking call rejects, or it answers and the answer is
\* parsed, repaired once if need be, mapped and sliced
CurateRank(contents, repairs, rankings) ==
    /\ fn.name = "curate" /\ fn.pc = "ranking"
    /\ \/ fn' = [fn EXCEPT !.pc = "threw",
                           !.answer = Throw("fetch failed") @@ [modelCalls |-> 1]]
       \/ \E content \in contents, repair \in repairs, ranked \in rankings :
            LET answer == curateAnswer(fn.args, content, repair, ranked)
            IN  fn' = [fn EXCEPT !.pc = IF answer.ok THEN "returned" ELSE "threw",
                                 !.content = content, !.ranked = ranked,
                                 !.repair = IF answer.modelCalls = 2 THEN repair ELSE NULL,
                                 !.answer = answer]
    /\ UNCHANGED <<contact, ing, calls, runs, events, capture, cp, mrg, trg>>

----------------------------------------------------------------------------
(* Research images: app/api/_utils/researchImages.ts, persistResearchImages
   one image at a time *)

\* params.maxImages ?? 6
DefaultMaxImages == 6

\* img.image_url || img.url
ImageSrc(img) == OrElse(Get(img, "image_url"), OrEmpty(Get(img, "url")))

\* what out.push stores for the image at index i; the number stands for the
\* storage path .../research/img_${i + 1}.${ext}
StoredImage(i, img) ==
    [storagePath |-> i + 1, sourceUrl |-> ImageSrc(img),
     title |-> IF Nullish(Get(img, "title")) THEN NULL ELSE img.title]

\* what can happen to one image that has a source: fetch rejects, answers
\* with an error status, answers with an empty body, or answers with bytes
\* that the bucket saves or fails to save
ImageOutcomes == {"network error", "error status", "empty body", "save failed", "saved"}

\* lines 23-26
PersistCall ==
    /\ fn.name = "persist" /\ fn.pc = "called"
    /\ LET maxImages == IF Has(fn.params, "maxImages") THEN fn.params.maxImages
                         ELSE DefaultMaxImages
       IN  fn' = [fn EXCEPT !.pc = "loop", !.toSave = Slice(fn.params.images, maxImages)]
    /\ UNCHANGED <<contact, ing, calls, runs, events, capture, cp, mrg, trg>>

\* one turn of the loop (lines 28-52)
PersistImage ==
    /\ fn.name = "persist" /\ fn.pc = "loop"
    /\ fn.i < Len(fn.toSave)
    /\ LET img == fn.toSave[fn.i + 1]
       IN  IF ImageSrc(img) = <<>>
           THEN fn' = [fn EXCEPT !.i = fn.i + 1, !.outcomes = Append(fn.outcomes, "no source")]
           ELSE \E outcome \in ImageOutcomes :
                  fn' = CASE outcome \in {"network error", "save failed"} ->
                               [fn EXCEPT !.pc = "threw",
                                          !.outcomes = Append(fn.outcomes, outcome)]
                          [] outcome \in {"error status", "empty body"} ->
                               [fn EXCEPT !.i = fn.i + 1,
                                          !.outcomes = Append(fn.outcomes, outcome)]
                          [] OTHER ->
                               [fn EXCEPT !.i = fn.i + 1,
                                          !.outcomes = Append(fn.outcomes, outcome),
                                          !.out = Append(fn.out, StoredImage(fn.i, img))]
    /\ UNCHANGED <<contact, ing, calls, runs, events, capture, cp, mrg, trg>>

\* line 54
PersistReturn ==
    /\ fn.name = "persist" /\ fn.pc = "loop"
    /\ fn.i = Len(fn.toSave)
    /\ fn' = [fn EXCEPT !.pc = "returned"]
    /\ UNCHANGED <<contact, ing, calls, runs, events, capture, cp, mrg, trg>>

----------------------------------------------------------------------------
(* Specifications *)

\* one ingest call on a stored contact
InitIngest ==
    /\ contact \in ContactSamples
    /\ ing = IngestIdle
    /\ calls = 0
    /\ runs = [r \in RunIds |-> RunOff]
    /\ events = <<>>
    /\ capture = EmptyObj
    /\ cp = CapOff
    /\ mrg = MergeIdle
    /\ trg = TriggerOff
    /\ fn = FnIdle

NextIngest ==
    \/ IngestRead(BOOLEAN, BOOLEAN, PlainForms)
    \/ IngestApply(ExtractionsFor(ing.snap), PlainCompletions)
    \/ IngestFail

SpecIngest == InitIngest /\ [][NextIngest]_vars

\* ingest calls one after the other on one contact
InitIngestSeq ==
    /\ contact \in NarrowContacts
    /\ ing = IngestIdle
    /\ calls = 0
    /\ runs = [r \in RunIds |-> RunOff]
    /\ events = <<>>
    /\ capture = EmptyObj
    /\ cp = CapOff
    /\ mrg = MergeIdle
    /\ trg = TriggerOff
    /\ fn = FnIdle

NextIngestSeq ==
    \/ IngestRead(BOOLEAN, BOOLEAN, PlainForms)
    \/ IngestApply(NarrowExtractions, PlainCompletions)
    \/ IngestFail
    \/ IngestAgain

SpecIngestSeq == InitIngestSeq /\ [][NextIngestSeq]_vars

\* the follower merge on a pair of raw lists
InitMerge ==
    /\ contact = BlankContact
    /\ ing = [IngestIdle EXCEPT !.pc = "off"]
    /\ calls = 0
    /\ runs = [r \in RunIds |-> RunOff]
    /\ events = <<>>
    /\ capture = EmptyObj
    /\ cp = CapOff
    /\ \E ex \in ListsUpTo(MergeEntries, MaxListLen), inc \in ListsUpTo(MergeEntries, MaxListLen) :
          mrg = [pc |-> "call", existing |-> ex, incoming |-> inc, result |-> <<>>]
    /\ trg = TriggerOff
    /\ fn = FnIdle

NextMerge == MergeCall

SpecMerge == InitMerge /\ [][NextMerge]_vars

\* the follower merge on raw lists whose entries need coercion
InitNormalize ==
    /\ contact = BlankContact
    /\ ing = [IngestIdle EXCEPT !.pc = "off"]
    /\ calls = 0
    /\ runs = [r \in RunIds |-> RunOff]
    /\ events = <<>>
    /\ capture = EmptyObj
    /\ cp = CapOff
    /\ \E ex \in ListsUpTo(RawEntries, 1), inc \in ListsUpTo(RawEntries, MaxListLen) :
          mrg = [pc |-> "call", existing |-> ex, incoming |-> inc, result |-> <<>>]
    /\ trg = TriggerOff
    /\ fn = FnIdle

NextNormalize == MergeCall

SpecNormalize == InitNormalize /\ [][NextNormalize]_vars

\* persistResearchImages on a batch of images
InitImages ==
    /\ contact = BlankContact
    /\ ing = [IngestIdle EXCEPT !.pc = "off"]
    /\ calls = 0
    /\ runs = [r \in RunIds |-> RunOff]
    /\ events = <<>>
    /\ capture = EmptyObj
    /\ cp = CapOff
    /\ mrg = MergeIdle
    /\ trg = TriggerOff
    /\ \E params \in PersistParams :
          fn = [name |-> "persist", pc |-> "called", params |-> params, toSave |-> <<>>,
                i |-> 0, out |-> <<>>, outcomes |-> <<>>]

NextImages == PersistCall \/ PersistImage \/ PersistReturn

SpecImages == InitImages /\ [][NextImages]_vars

\* one deep-research request, streaming or not, on a stored contact
InitResearch ==
    /\ contact \in ResearchContacts
    /\ ing = [IngestIdle EXCEPT !.pc = "off"]
    /\ calls = 0
    /\ \E r \in RunIds : runs = [x \in RunIds |-> IF x = r THEN RunIdle ELSE RunOff]
    /\ events = <<>>
    /\ capture = EmptyObj
    /\ cp = CapOff
    /\ mrg = MergeIdle
    /\ trg = TriggerOff
    /\ fn = FnIdle

NextResearch ==
    \E r \in RunIds :
        \/ ResReject(r)
        \/ ResStart(r)
        \/ ResSetRunning(r)
        \/ ResBackend(r)
        \/ ResChunk(r, ChunkSamples)
        \/ ResChunksEnd(r)
        \/ ResBatchResult(r, ResultSamples)
        \/ ResImages(r)
        \/ ResPhaseA(r)
        \/ ResEnrich(r, EnrichmentSamples, PlainTexts)
        \/ ResCurate(r, LinkSamples)
        \/ ResFinal(r)
        \/ ResCatch(r)

SpecResearch == InitResearch /\ [][NextResearch]_vars

\* the writers of a contact's tags: a capture that creates the contact and
\* researches it, ingest calls and a deep-research request on that contact
InitTags ==
    /\ contact = EmptyObj
    /\ ing = IngestIdle
    /\ calls = 0
    /\ runs = [x \in RunIds |-> IF x = "route" THEN RunIdle ELSE RunOff]
    /\ events = <<>>
    /\ capture = EmptyObj
    /\ cp = CapIdle
    /\ mrg = MergeIdle
    /\ trg = TriggerOff
    /\ fn = FnIdle

\* the contact document exists
ContactCreated == DOMAIN contact # {}

NextTags ==
    \/ UploadAccept(PlainForms)
    \/ CapExtract(TagExtractions, PlainCompletions)
    \/ CapCreateContact
    \/ CapMarkCapture
    \/ CapSetRunning
    \/ CapResearch(NarrowResults)
    \/ CapImages
    \/ CapPhaseA
    \/ CapEnrich(TagEnrichments, PlainTexts)
    \/ CapFinal
    \/ CapReady
    \/ ContactCreated /\ IngestRead({FALSE}, {FALSE}, PlainForms)
    \/ IngestApply(TagExtractions, PlainCompletions)
    \/ ContactCreated /\ ResStart("route")
    \/ ResSetRunning("route")
    \/ ResBackend("route")
    \/ ResBatchResult("route", NarrowResults)
    \/ ResImages("route")
    \/ ResPhaseA("route")
    \/ ResEnrich("route", TagEnrichments, PlainTexts)
    \/ ResCurate("route", NarrowLinks)
    \/ ResFinal("route")

SpecTags == InitTags /\ [][NextTags]_vars

\* one streaming request whose caller may close the connection
InitDisconnect ==
    /\ contact \in ResearchContacts
    /\ ing = [IngestIdle EXCEPT !.pc = "off"]
    /\ calls = 0
    /\ runs = [x \in RunIds |-> IF x = "stream" THEN RunIdle ELSE RunOff]
    /\ events = <<>>
    /\ capture = EmptyObj
    /\ cp = CapOff
    /\ mrg = MergeIdle
    /\ trg = TriggerOff
    /\ fn = FnIdle

NextDisconnect ==
    \/ ResReject("stream")
    \/ ResStart("stream")
    \/ ResSetRunning("stream")
    \/ ResBackend("stream")
    \/ ResChunk("stream", NarrowChunks)
    \/ ResChunksEnd("stream")
    \/ ResBatchResult("stream", NarrowResults)
    \/ ResImages("stream")
    \/ ResPhaseA("stream")
    \/ ResEnrich("stream", NarrowEnrichments, PlainTexts)
    \/ ResCurate("stream", NarrowLinks)
    \/ ResFinal("stream")
    \/ ResCatch("stream")
    \/ CallerCloses
    \/ ResEnqueueThrows("stream")

SpecDisconnect == InitDisconnect /\ [][NextDisconnect]_vars

\* the writers of a contact's extraLinks: a capture that creates the contact
\* and researches it, and a deep-research request on that contact
NextLinks ==
    \/ UploadAccept(PlainForms)
    \/ CapExtract({EmptyObj}, PlainCompletions)
    \/ CapCreateContact
    \/ CapMarkCapture
    \/ CapSetRunning
    \/ CapResearch(NarrowResults)
    \/ CapImages
    \/ CapPhaseA
    \/ CapEnrich(LinkEnrichments, PlainTexts)
    \/ CapFinal
    \/ CapReady
    \/ ContactCreated /\ ResStart("route")
    \/ ResSetRunning("route")
    \/ ResBackend("route")
    \/ ResBatchResult("route", NarrowResults)
    \/ ResImages("route")
    \/ ResPhaseA("route")
    \/ ResEnrich("route", LinkEnrichments, PlainTexts)
    \/ ResCurate("route", CuratedLists)
    \/ ResFinal("route")

SpecLinks == InitTags /\ [][NextLinks]_vars

\* one deep-research request, by either endpoint, on a contact with identity
\* fields
InitFields ==
    /\ contact \in FieldContacts
    /\ ing = [IngestIdle EXCEPT !.pc = "off"]
    /\ calls = 0
    /\ \E r \in RunIds : runs = [x \in RunIds |-> IF x = r THEN RunIdle ELSE RunOff]
    /\ events = <<>>
    /\ capture = EmptyObj
    /\ cp = CapOff
    /\ mrg = MergeIdle
    /\ trg = TriggerOff
    /\ fn = FnIdle

NextFields ==
    \E r \in RunIds :
        \/ ResStart(r)
        \/ ResSetRunning(r)
        \/ ResBackend(r)
        \/ ResChunk(r, NarrowChunks)
        \/ ResChunksEnd(r)
        \/ ResBatchResult(r, NarrowResults)
        \/ ResImages(r)
        \/ ResPhaseA(r)
        \/ ResEnrich(r, FieldEnrichments, PlainTexts)
        \/ ResCurate(r, LinkSamples)
        \/ ResFinal(r)
        \/ ResCatch(r)

SpecFields == InitFields /\ [][NextFields]_vars

\* ingest requests and a deep-research request on one contact, interleaved, or
\* the two deep-research requests on one contact, interleaved, or
\* the follower merge alone on a pair of raw lists
InitFollowers ==
    \/ /\ contact \in FollowerContacts
       /\ ing = IngestIdle
       /\ calls = 0
       /\ \E r \in RunIds : runs = [x \in RunIds |-> IF x = r THEN RunIdle ELSE RunOff]
       /\ events = <<>>
       /\ capture = EmptyObj
       /\ cp = CapOff
       /\ mrg = MergeIdle
       /\ trg = TriggerOff
       /\ fn = FnIdle
    \/ /\ contact \in FollowerContacts
       /\ ing = [IngestIdle EXCEPT !.pc = "off"]
       /\ calls = 0
       /\ runs = [r \in RunIds |-> RunIdle]
       /\ events = <<>>
       /\ capture = EmptyObj
       /\ cp = CapOff
       /\ mrg = MergeIdle
       /\ trg = TriggerOff
       /\ fn = FnIdle
    \/ InitMerge

NextFollowers ==
    \/ IngestRead({FALSE}, {FALSE}, PlainForms)
    \/ IngestApply(FollowerExtractions, PlainCompletions)
    \/ IngestFail
    \/ IngestAgain
    \/ \E r \in RunIds :
        \/ ResReject(r)
        \/ ResStart(r)
        \/ ResSetRunning(r)
        \/ ResBackend(r)
        \/ ResChunk(r, NarrowChunks)
        \/ ResChunksEnd(r)
        \/ ResBatchResult(r, NarrowResults)
        \/ ResImages(r)
        \/ ResPhaseA(r)
        \/ ResEnrich(r, NarrowEnrichments, PlainTexts)
        \/ ResCurate(r, NarrowLinks)
        \/ ResFinal(r)
        \/ ResCatch(r)
    \/ MergeCall

SpecFollowers == InitFollowers /\ [][NextFollowers]_vars

\* one capture upload and its background processing
InitCapture ==
    /\ contact = EmptyObj
    /\ ing = [IngestIdle EXCEPT !.pc = "off"]
    /\ calls = 0
    /\ runs = [r \in RunIds |-> RunOff]
    /\ events = <<>>
    /\ capture = EmptyObj
    /\ cp = CapIdle
    /\ mrg = MergeIdle
    /\ trg = TriggerOff
    /\ fn = FnIdle

\* the steps of processCaptureAsync and of the .catch of its caller
CapStep ==
    \/ CapExtract(CaptureExtractions, PlainCompletions)
    \/ CapCreateContact
    \/ CapMarkCapture
    \/ CapFail
    \/ CapSetRunning
    \/ CapResearch(ResultSamples)
    \/ CapImages
    \/ CapPhaseA
    \/ CapEnrich(EnrichmentSamples, PlainTexts)
    \/ CapFinal
    \/ CapReady
    \/ CapResearchFail
    \/ CapInnerCatch
    \/ CapInnerCatchReady
    \/ CapOuterCatch

NextCapture ==
    \/ UploadReject(PlainForms)
    \/ UploadAccept(PlainForms)
    \/ CapStep

SpecCapture == InitCapture /\ [][NextCapture]_vars

\* the runtime keeps running the started promise: a pending step is taken
FairSpecCapture == SpecCapture /\ WF_vars(CapStep)

\* one research result, both backends
InitBackends ==
    /\ contact = BlankContact
    /\ ing = [IngestIdle EXCEPT !.pc = "off"]
    /\ calls = 0
    /\ runs = [r \in RunIds |-> RunOff]
    /\ events = <<>>
    /\ capture = EmptyObj
    /\ cp = CapOff
    /\ mrg = MergeIdle
    /\ trg = TriggerOff
    /\ \E res \in ServiceResults, whole \in BOOLEAN,
          metaOn \in {"reasoning", "completion"}, withFinal \in BOOLEAN :
          fn = [name |-> "backends", pc |-> "loop", result |-> res,
                rest |-> StreamOf(res, whole, metaOn, withFinal),
                fullContent |-> <<>>, images |-> <<>>, searchResults |-> <<>>,
                batch |-> Throw("")]

NextBackends == BackendChunk \/ BackendBatch

SpecBackends == InitBackends /\ [][NextBackends]_vars

\* one request (ingest, capture upload or deep research) whose model
\* completions are any text
InitPhases ==
    \/ /\ contact \in NarrowContacts
       /\ ing = IngestIdle
       /\ calls = 0
       /\ runs = [r \in RunIds |-> RunOff]
       /\ events = <<>>
       /\ capture = EmptyObj
       /\ cp = CapOff
       /\ mrg = MergeIdle
       /\ trg = TriggerOff
       /\ fn = FnIdle
    \/ /\ contact \in ResearchContacts
       /\ ing = [IngestIdle EXCEPT !.pc = "off"]
       /\ calls = 0
       /\ \E r \in RunIds : runs = [x \in RunIds |-> IF x = r THEN RunIdle ELSE RunOff]
       /\ events = <<>>
       /\ capture = EmptyObj
       /\ cp = CapOff
       /\ mrg = MergeIdle
       /\ trg = TriggerOff
       /\ fn = FnIdle
    \/ InitCapture

NextPhases ==
    \/ IngestRead(BOOLEAN, {FALSE}, PlainForms)
    \/ IngestApply(NarrowExtractions, CompletionSamples)
    \/ IngestFail
    \/ \E r \in RunIds :
        \/ ResReject(r)
        \/ ResStart(r)
        \/ ResSetRunning(r)
        \/ ResBackend(r)
        \/ ResChunk(r, NarrowChunks)
        \/ ResChunksEnd(r)
        \/ ResBatchResult(r, NarrowResults)
        \/ ResImages(r)
        \/ ResPhaseA(r)
        \/ ResEnrich(r, NarrowEnrichments, CompletionTexts)
        \/ ResCurate(r, NarrowLinks)
        \/ ResFinal(r)
        \/ ResCatch(r)
    \/ UploadReject(PlainForms)
    \/ UploadAccept(PlainForms)
    \/ CapExtract(CaptureExtractions, CompletionSamples)
    \/ CapCreateContact
    \/ CapMarkCapture
    \/ CapFail
    \/ CapSetRunning
    \/ CapResearch(NarrowResults)
    \/ CapImages
    \/ CapPhaseA
    \/ CapEnrich(NarrowEnrichments, CompletionTexts)
    \/ CapFinal
    \/ CapReady
    \/ CapResearchFail
    \/ CapInnerCatch
    \/ CapInnerCatchReady
    \/ CapOuterCatch

SpecPhases == InitPhases /\ [][NextPhases]_vars

\* one ingest request or one capture upload with any form
InitValidation ==
    \/ /\ contact \in NarrowContacts
       /\ ing = IngestIdle
       /\ calls = 0
       /\ runs = [r \in RunIds |-> RunOff]
       /\ events = <<>>
       /\ capture = EmptyObj
       /\ cp = CapOff
       /\ mrg = MergeIdle
       /\ trg = TriggerOff
       /\ fn = FnIdle
    \/ InitCapture

NextValidation ==
    \/ IngestReject(FormSamples)
    \/ IngestRead({FALSE}, {FALSE}, FormSamples)
    \/ IngestApply({One("notes", nB)}, PlainCompletions)
    \/ IngestFail
    \/ UploadReject(FormSamples)
    \/ UploadAccept(FormSamples)
    \/ CapExtract({One("fullName", sAnnB)}, PlainCompletions)
    \/ CapCreateContact
    \/ CapMarkCapture
    \/ CapFail
    \/ CapSetRunning
    \/ CapResearch(NarrowResults)
    \/ CapImages
    \/ CapPhaseA
    \/ CapEnrich(NarrowEnrichments, PlainTexts)
    \/ CapFinal
    \/ CapReady
    \/ CapResearchFail
    \/ CapInnerCatch
    \/ CapInnerCatchReady
    \/ CapOuterCatch

SpecValidation == InitValidation /\ [][NextValidation]_vars

\* one call of the link curator
InitCurate ==
    /\ contact = BlankContact
    /\ ing = [IngestIdle EXCEPT !.pc = "off"]
    /\ calls = 0
    /\ runs = [r \in RunIds |-> RunOff]
    /\ events = <<>>
    /\ capture = EmptyObj
    /\ cp = CapOff
    /\ mrg = MergeIdle
    /\ trg = TriggerOff
    /\ \E args \in CurateArgs :
          fn = [name |-> "curate", pc |-> "called", args |-> args, pool |-> <<>>,
                content |-> NULL, repair |-> NULL, ranked |-> <<>>,
                answer |-> [ok |-> TRUE, value |-> <<>>, modelCalls |-> 0]]

NextCurate == CuratePool \/ CurateRank(RankingContents, RankingRepairs, RankedLists)

SpecCurate == InitCurate /\ [][NextCurate]_vars

\* one capture upload, its background processing, the on-create trigger and
\* the retry of the capture page
InitLifecycle ==
    /\ contact = EmptyObj
    /\ ing = [IngestIdle EXCEPT !.pc = "off"]
    /\ calls = 0
    /\ runs = [r \in RunIds |-> RunOff]
    /\ events = <<>>
    /\ capture = EmptyObj
    /\ cp = CapIdle
    /\ mrg = MergeIdle
    /\ fn = FnIdle
    /\ trg = TriggerIdle

NextLifecycle ==
    \/ UploadReject(PlainForms)
    \/ UploadAccept(PlainForms)
    \/ CapExtract({One("fullName", sAnnB)}, PlainCompletions)
    \/ CapCreateContact
    \/ CapMarkCapture
    \/ CapFail
    \/ CapSetRunning
    \/ CapResearch(NarrowResults)
    \/ CapImages
    \/ CapPhaseA
    \/ CapEnrich(NarrowEnrichments, PlainTexts)
    \/ CapFinal
    \/ CapReady
    \/ CapResearchFail
    \/ CapInnerCatch
    \/ CapInnerCatchReady
    \/ CapOuterCatch
    \/ TriggerFire
    \/ TriggerMarkProcessing
    \/ TriggerExtract({One("fullName", sAnnB)}, PlainCompletions)
    \/ TriggerCreateContact
    \/ TriggerMarkReady
    \/ TriggerFail
    \/ TriggerCatch
    \/ CaptureRetry

SpecLifecycle == InitLifecycle /\ [][NextLifecycle]_vars

\* the runtimes keep running what they started, and whatever else can happen
\* does happen: a step that stays possible is taken
FairSpecLifecycle == SpecLifecycle /\ WF_vars(NextLifecycle)

----------------------------------------------------------------------------
(* Properties of deep research *)

Terminal(e) == e.type \in {"done", "error"}

TypesOf(evs) == [i \in 1..Len(evs) |-> evs[i].type]

\* C2: a deep-research run that has set the contact's research status to
\* running and has ended, in success or in an exception, leaves the research
\* status at done or error, never at running; and a streaming run that ended in
\* an exception has emitted an error record last.
C2_EndsTerminal ==
    \A r \in RunIds :
        runs[r].pc = "closed" /\ runs[r].authorised =>
            /\ contact.deepResearchStatus # "running"
            /\ (r = "stream" /\ runs[r].status = 500 =>
                    events # <<>> /\ events[Len(events)].type = "error")

\* C9: the records of one streaming request are ordered: an authorised run's
\* first record is a status record; a content record comes after a status
\* record and before any terminal record; a terminal record (done or error) is
\* the last record, so there is one at most and nothing follows it; a closed
\* stream ends with one; and the done record is there only once the final
\* write has set the research status to done.
C9_RecordOrder ==
    LET t == TypesOf(events)
        n == Len(events)
    IN  /\ runs["stream"].authorised /\ n > 0 => t[1] = "status"
        /\ \A i \in 1..n :
              t[i] = "content" =>
                  /\ \E j \in 1..(i - 1) : t[j] = "status"
                  /\ \A j \in 1..(i - 1) : ~Terminal(events[j])
        /\ \A i \in 1..n : Terminal(events[i]) => i = n
        /\ runs["stream"].pc = "closed" => n > 0 /\ Terminal(events[n])
        /\ n > 0 /\ t[n] = "done" => contact.deepResearchStatus = "done"

\* a stream that carried content records and ended with done
C9_Witness ==
    /\ runs["stream"].pc = "closed"
    /\ Len(events) > 6
    /\ events[Len(events)].type = "done"
    /\ \E i \in 1..Len(events) : events[i].type = "content"
    /\ \E i \in 1..Len(events) : events[i].type = "sources"

RECURSIVE ConcatContent(_)
ConcatContent(evs) ==
    IF evs = <<>> THEN <<>>
    ELSE (IF Head(evs).type = "content" THEN Head(evs).text ELSE <<>>)
         \o ConcatContent(Tail(evs))

\* C10: once a streaming run has stored the research text, the content records
\* emitted so far, concatenated in order, are the text stored as
\* deepResearchRaw and handed to the enrichment pass.
C10_ContentIsResearchText ==
    runs["stream"].pc \in {"enrich", "curate", "final"} =>
        /\ ConcatContent(events) = contact.deepResearchRaw
        /\ ConcatContent(events) = runs["stream"].fullContent

----------------------------------------------------------------------------
(* Properties of ingest *)

\* the ingest request answers in this step
IngestAnswers == ing.pc = "read" /\ ing'.pc = "done"

ConflictFields == {"email", "phone", "name", "linkedInUrl"}

\* the two normalized sides of a conflict field
ConflictSides(f, existing, incoming) ==
    CASE f = "email" -> <<normalizeEmail(Get(existing, f)), normalizeEmail(Get(incoming, f))>>
      [] f = "phone" -> <<normalizePhone(Get(existing, f)), normalizePhone(Get(incoming, f))>>
      [] f = "name" -> <<NameOf(existing), NameOf(incoming)>>
      [] f = "linkedInUrl" -> <<normalizeUrl(Get(existing, f)), normalizeUrl(Get(incoming, f))>>

InConflict(f, existing, incoming) ==
    LET sides == ConflictSides(f, existing, incoming)
    IN  sides[1] # <<>> /\ sides[2] # <<>> /\ sides[1] # sides[2]

DetectedFields(conflicts) == {conflicts[i].field : i \in 1..Len(conflicts)}

\* C1: when the snapshot and the extraction conflict on some field and force
\* is false, the call answers 409 with one conflict record for every field in
\* conflict and the stored contact is the same after the call as before it.
C1_ConflictFailsClosed ==
    [][ (IngestAnswers /\ ~ing.force
         /\ \E f \in ConflictFields : InConflict(f, ing.snap, ing'.incoming))
        => /\ ing'.status = 409
           /\ DetectedFields(ing'.conflicts)
                = {f \in ConflictFields : InConflict(f, ing.snap, ing'.incoming)}
           /\ Len(ing'.conflicts) = Cardinality(DetectedFields(ing'.conflicts))
           /\ contact' = contact ]_vars

C1_Witness ==
    /\ ing.pc = "done" /\ ing.status = 409 /\ ~ing.force
    /\ DetectedFields(ing.conflicts) = {"email"}
    /\ Get(ing.snap, "email") = eA /\ Get(ing.incoming, "email") = eB
    /\ "jobTitle" \in DOMAIN ing.incoming
    /\ contact = ing.snap

SameAfterNormalization(incoming, existing) ==
    /\ \A f \in ScalarFieldSet :
          f \in DOMAIN incoming
          => NormalizeFor(f, incoming[f]) = NormalizeFor(f, Get(existing, f))
    /\ "notes" \in DOMAIN incoming
          => Trim(OrEmpty(incoming.notes)) = Trim(OrEmpty(Get(existing, "notes")))
    /\ "tags" \in DOMAIN incoming
          => Dedupe(TrimTags(incoming.tags), <<>>) = GetArr(existing, "tags")
    /\ "socialFollowers" \in DOMAIN incoming
          => NormalizeAll(incoming.socialFollowers) = GetArr(existing, "socialFollowers")
    /\ "socialFollowers" \notin DOMAIN incoming
          => GetArr(existing, "socialFollowers") = <<>>

\* C7: an extraction identical after normalization to the existing contact
\* gives no applied field and no conflict and leaves the contact unchanged.
C7_Idempotent ==
    (ing.pc = "done" /\ ing.status \in {200, 409}
     /\ SameAfterNormalization(ing.incoming, ing.snap))
    => /\ ing.applied = <<>>
       /\ ing.conflicts = <<>>
       /\ contact = ing.snap

\* C6: an ingest that applies never overwrites notes: with existing and
\* incoming notes both non-empty the stored notes become the existing notes,
\* the separator, the incoming notes; and every ingest call leaves the text of
\* the notes stored before it inside the notes stored after it.
C6_NotesAppended ==
    [][ LET old == Trim(OrEmpty(Get(contact, "notes")))
            new == OrEmpty(Get(contact', "notes"))
        IN  /\ Contains(new, old)
            /\ (IngestAnswers /\ ing'.status = 200)
               => LET inc == Trim(OrEmpty(Get(ing'.incoming, "notes")))
                  IN  (old # <<>> /\ inc # <<>>) => new = old \o NotesSeparator \o inc ]_vars

C6_Witness ==
    /\ calls = 2 /\ ing.pc = "done" /\ ing.status = 200
    /\ Get(contact, "notes") = nA \o NotesSeparator \o Trim(nB) \o NotesSeparator \o nA

----------------------------------------------------------------------------
(* Properties of the followers *)

\* no platform twice, and never "twitter"
OnePerPlatform(list) ==
    /\ \A i \in 1..Len(list) : list[i].platform # "twitter"
    /\ \A i, j \in 1..Len(list) : list[i].platform = list[j].platform => i = j

\* C4: whatever ingest and deep-research requests have run, in whatever
\* interleaving, the stored socialFollowers list has at most one entry for a
\* platform and none for "twitter"; and so has every list the follower merge
\* returns.
C4_OnePerPlatform ==
    /\ Has(contact, "socialFollowers") => OnePerPlatform(contact.socialFollowers)
    /\ mrg.pc = "returned" /\ mrg.result # NoSignal => OnePerPlatform(mrg.result)

\* ingest and deep research have both written followers, twitter folded into x
C4_Witness ==
    /\ ing.pc = "done" /\ ing.status = 200
    /\ \E i \in 1..Len(ing.applied) : ing.applied[i] = "socialFollowers"
    /\ \E r \in RunIds :
          /\ runs[r].pc = "closed" /\ runs[r].status = 200
          /\ runs[r].enrichment.socialFollowers # <<>>
    /\ Has(contact, "socialFollowers")
    /\ Len(contact.socialFollowers) >= 2
    /\ \E i \in 1..Len(contact.socialFollowers) : contact.socialFollowers[i].platform = "x"

\* the socialFollowers field is the same before and after the step
FollowersUntouched ==
    /\ Has(contact', "socialFollowers") <=> Has(contact, "socialFollowers")
    /\ Has(contact, "socialFollowers") => contact'.socialFollowers = contact.socialFollowers

\* the merge an ingest request does when it answers in this step
IngestNoSignal ==
    /\ IngestAnswers
    /\ mergeSocialFollowers(GetArr(ing.snap, "socialFollowers"),
                            GetArr(ing'.incoming, "socialFollowers")) = NoSignal

\* the merge a deep-research run does when it does its final write in this step
ResearchNoSignal(r) ==
    /\ runs[r].pc = "final" /\ runs'[r].pc = "closed" /\ runs'[r].status = 200
    /\ mergeSocialFollowers(GetArr(runs[r].data, "socialFollowers"),
                            GetArr(runs[r].enrichment, "socialFollowers")) = NoSignal

----------------------------------------------------------------------------
(* Properties of capture processing *)

CaptureOpen == Has(capture, "status") /\ capture.status \in {"processing", "researching"}

CaptureTerminal == Has(capture, "status") /\ capture.status \in {"ready", "error"}

----------------------------------------------------------------------------
(* Properties of the research backends *)

\* C11: for every research result, empty content included, the research phase
\* over the streaming backend and over the batch backend end alike: both
\* succeed, with the same research text, sources and images to persist.
C11_BackendsAgree ==
    fn.name = "backends" /\ fn.pc = "compared" =>
        /\ fn.batch.ok
        /\ fn.batch.content = fn.fullContent
        /\ fn.batch.search_results = fn.searchResults
        /\ fn.batch.images = fn.images

----------------------------------------------------------------------------
(* Model completions: repair round-trips *)

\* the parse of the first-brace to last-brace slice throws on the text
Unparsable(text) == ~safeParseModelJson(text).ok

\* the text is not valid JSON against the schema
InvalidCompletion(text) ==
    Unparsable(text) \/ ~schemaParse(safeParseModelJson(text).value).ok

\* C12: when the enrichment completion of a deep-research run cannot be parsed
\* by the first-brace/last-brace extraction, the run has made exactly one
\* repair round-trip, that is two model calls, in its enrichment phase.
C12_EnrichmentRepairsOnce ==
    /\ \A r \in RunIds :
          runs[r].modelCalls >= 1 /\ Unparsable(runs[r].enrichmentContent)
              => runs[r].modelCalls = 2
    /\ cp.enrichmentCalls >= 1 /\ Unparsable(cp.enrichmentContent)
          => cp.enrichmentCalls = 2

\* C13: an extraction completion that is not valid JSON against the schema,
\* unparsable or schema-violating, is followed by exactly one repair round-trip
\* (two model calls); when the phase fails, no contact has been written.
C13_ExtractionRepairsOnce ==
    /\ ing.modelCalls >= 1 /\ InvalidCompletion(ing.content) => ing.modelCalls = 2
    /\ cp.modelCalls >= 1 /\ InvalidCompletion(cp.content) => cp.modelCalls = 2
    /\ ing.pc = "done" /\ ing.status = 500 => contact = ing.snap
    /\ cp.failedAt = "extract" => contact = EmptyObj

\* text[i..j] is a valid JSON object
ValidObjectAt(text, i, j) ==
    /\ 1 <= i /\ i < j /\ j <= Len(text)
    /\ text[i] = "{" /\ text[j] = "}"
    /\ JSONparse(SubSeq(text, i, j)).ok

\* a valid JSON object wrapped in a json code fence
FencedObject(text) ==
    \E i, j \in 1..Len(text) :
        /\ ValidObjectAt(text, i, j)
        /\ SubSeq(text, 1, i - 1) = tFence
        /\ SubSeq(text, j + 1, Len(text)) = <<"\n", "'", "'", "'">>

\* a valid JSON object preceded by prose
ProseLedObject(text) ==
    \E i \in 2..Len(text) :
        /\ ValidObjectAt(text, i, Len(text))
        /\ \E k \in 1..(i - 1) : ~IsSpace(text[k])

\* a valid JSON object preceded by prose that has no opening brace
PlainProseLedObject(text) ==
    \E i \in 2..Len(text) :
        /\ ValidObjectAt(text, i, Len(text))
        /\ \E k \in 1..(i - 1) : ~IsSpace(text[k])
        /\ \A k \in 1..(i - 1) : text[k] # "{"

\* the extraction parsed the first completion: no repair round-trip was made
ParsedAtOnce(content, modelCalls) ==
    safeParseModelJson(content).ok /\ modelCalls = 1

\* C15 as stated: a valid JSON object in a json code fence, or preceded by any
\* leading prose, is parsed by the first-brace/last-brace extraction and no
\* repair round-trip is made.
C15_AnyProse ==
    /\ ing.modelCalls >= 1 /\ (FencedObject(ing.content) \/ ProseLedObject(ing.content))
          => ParsedAtOnce(ing.content, ing.modelCalls)
    /\ cp.modelCalls >= 1 /\ (FencedObject(cp.content) \/ ProseLedObject(cp.content))
          => ParsedAtOnce(cp.content, cp.modelCalls)

\* C15 amended: a valid JSON object in a json code fence, or preceded by
\* leading prose that contains no opening brace, is parsed by the
\* first-brace/last-brace extraction and no repair round-trip is made.
C15_FenceOrPlainProse ==
    /\ ing.modelCalls >= 1 /\ (FencedObject(ing.content) \/ PlainProseLedObject(ing.content))
          => ParsedAtOnce(ing.content, ing.modelCalls)
    /\ cp.modelCalls >= 1 /\ (FencedObject(cp.content) \/ PlainProseLedObject(cp.content))
          => ParsedAtOnce(cp.content, cp.modelCalls)

\* an ingest answered 200 and applied fields from a fenced completion
C15_Witness ==
    /\ ing.pc = "done" /\ ing.status = 200 /\ ing.applied # <<>>
    /\ FencedObject(ing.content)
    /\ ing.modelCalls = 1

\* C14: when the enrichment phase of a deep-research run fails, by a rejected
\* model call, an unparsable or schema-invalid completion, a curation error or
\* a rejected write, deepResearchRaw still holds the research text that Phase A
\* stored: the failure neither removes nor alters it.
C14_PhaseAKept ==
    [][ /\ \A r \in RunIds :
              /\ runs[r].pc \in {"enrich", "curate", "final"}
              /\ runs'[r].pc = "closed" /\ runs'[r].status = 500
              => /\ Get(contact', "deepResearchRaw") = runs[r].fullContent
                 /\ Get(contact', "deepResearchRaw") = Get(contact, "deepResearchRaw")
        /\ cp'.failedAt \in {"enrich", "final"}
              => Get(contact', "deepResearchRaw") = cp'.research.content ]_vars

\* a streamed run failed on an unparsable enrichment completion and the
\* research text is stored
C14_Witness ==
    /\ runs["stream"].pc = "closed" /\ runs["stream"].status = 500
    /\ Unparsable(runs["stream"].enrichmentContent)
    /\ runs["stream"].modelCalls = 1
    /\ runs["stream"].fullContent # <<>>
    /\ Get(contact, "deepResearchRaw") = runs["stream"].fullContent

----------------------------------------------------------------------------
(* Request validation *)

\* the files a form carries, whatever their field
SentImages(form) == SelectSeq(form.images, LAMBDA file : file.size > 0)

NoInput(form) == SentImages(form) = <<>> /\ Trim(form.text) = <<>>
Oversized(form) ==
    \E i \in 1..Len(SentImages(form)) : SentImages(form)[i].size > MAX_BYTES_PER_IMAGE
TooMany(form) == Len(SentImages(form)) > MAX_IMAGES

\* C16: a capture upload or an ingest request with neither text nor image,
\* with an image over 10MB, or with more than 6 images is answered with an
\* error status and a message, and leaves nothing behind: no stored image, no
\* capture document, no contact written, no model call.
C16_ValidationRejects ==
    /\ cp.pc \notin {"off", "idle"}
       /\ (NoInput(cp.form) \/ Oversized(cp.form) \/ TooMany(cp.form))
          => /\ cp.pc = "rejected" /\ cp.response >= 400 /\ cp.message # ""
             /\ cp.blobs = 0 /\ capture = EmptyObj /\ contact = EmptyObj
             /\ cp.modelCalls = 0
    /\ ing.pc \notin {"off", "idle"}
       /\ (NoInput(ing.form) \/ Oversized(ing.form) \/ TooMany(ing.form))
          => /\ ing.pc = "done" /\ ing.status >= 400 /\ ing.message # ""
             /\ contact = ing.snap
             /\ ing.modelCalls = 0

----------------------------------------------------------------------------
(* Properties of link curation *)

\* a url without its tracking query
StripTracking(url) ==
    LET q == IndexOf(url, "?")
    IN  IF q > 0 /\ q + 4 <= Len(url) /\ SubSeq(url, q + 1, q + 4) = <<"u", "t", "m", "_">>
        THEN SubSeq(url, 1, q - 1)
        ELSE url

\* urls that differ only by tracking parameters or letter case are the same
SameLink(a, b) == ToLowerCase(StripTracking(a)) = ToLowerCase(StripTracking(b))

\* C17: the candidate pool handed to the ranking service holds no two
\* candidates whose urls are equal, or differ only by tracking parameters or
\* by letter case.
C17_PoolDeduplicated ==
    fn.name = "curate" /\ fn.pc # "called" =>
        \A i, j \in 1..Len(fn.pool) :
            i # j => ~SameLink(fn.pool[i].url, fn.pool[j].url)

\* the maximum the caller configured (12 when none is given)
ConfiguredMax(args) == IF Has(args, "maxLinks") THEN args.maxLinks ELSE 12

\* the configured maximum brought into 3..20
EffectiveMax(args) ==
    IF ConfiguredMax(args) < 3 THEN 3
    ELSE IF ConfiguredMax(args) > 20 THEN 20
    ELSE ConfiguredMax(args)

\* the ranking answered with an object whose links are all usable
UsableRanking ==
    /\ fn.pc \in {"returned", "threw"} /\ fn.answer.modelCalls = 1
    /\ fn.content # NULL
    /\ safeParseModelJson(fn.content).ok
    /\ safeParseModelJson(fn.content).value = <<Conforming>>
    /\ \A i \in 1..Len(fn.ranked) :
          /\ Trim(fn.ranked[i].label) # <<>>
          /\ normalizeLinkUrl(Get(fn.ranked[i], "url")) # NULL

\* C18 as stated: the curator returns at most the configured maximum number
\* of links, for every configured maximum and every ranking response.
C18_AtMostConfigured ==
    fn.name = "curate" /\ fn.pc = "returned" =>
        Len(fn.answer.value) <= ConfiguredMax(fn.args)

\* C18 amended: the curator returns at most max(3, min(configured maximum, 20))
\* links; a usable ranking result with more links than that is not rejected
\* but cut to its first links.
C18_AtMostClamped ==
    fn.name = "curate" =>
        /\ fn.pc = "returned" => Len(fn.answer.value) <= EffectiveMax(fn.args)
        /\ UsableRanking =>
              /\ fn.pc = "returned"
              /\ Len(fn.answer.value) = Min(Len(fn.ranked), EffectiveMax(fn.args))
              /\ \A i \in 1..Len(fn.answer.value) :
                    fn.answer.value[i].label = Trim(fn.ranked[i].label)

\* the caller's maximum of 12 met a ranking of 13 links
C18_Witness ==
    /\ fn.name = "curate" /\ fn.pc = "returned"
    /\ ConfiguredMax(fn.args) = 12
    /\ Len(fn.ranked) = 13
    /\ Len(fn.answer.value) = 12

----------------------------------------------------------------------------
(* Capture lifecycle *)

AllowedEdges ==
    {<<"queued", "processing">>, <<"processing", "researching">>,
     <<"processing", "ready">>, <<"researching", "ready">>,
     <<"processing", "error">>, <<"researching", "error">>, <<"error", "queued">>}

\* the step changes the status of the capture from a to b
StatusChange(a, b) ==
    /\ Has(capture, "status") /\ capture.status = a
    /\ capture'.status = b

\* C19: the status of a capture changes only along the edges queued to
\* processing, processing to researching, processing to ready, researching to
\* ready, processing to error, researching to error and error to queued;
\* researching is entered only when deep research was requested; a ready
\* capture stays ready.
C19_StatusEdges ==
    [][ /\ \A a, b \in {"queued", "processing", "researching", "ready", "error"} :
              StatusChange(a, b) /\ a # b => <<a, b>> \in AllowedEdges
        /\ \A a \in {"queued", "processing", "ready", "error"} :
              StatusChange(a, "researching") => capture'.deepResearchEnabled
        /\ Has(capture, "status") /\ capture.status = "ready"
              => capture'.status = "ready" ]_vars

\* the digits of s and a '+' only where it leads them
DigitsAndLeadingPlus(s) ==
    LET kept == KeepDigitsAndPlus(OrEmpty(s))
    IN  IF kept = <<>> THEN <<>>
        ELSE <<Head(kept)>> \o SelectSeq(Tail(kept), LAMBDA c : c # "+")

\* the two normalized sides of field f as the description of the comparison
\* gives them
StatedSides(f, existing, incoming) ==
    CASE f = "email" -> <<ToLowerCase(Trim(OrEmpty(Get(existing, "email")))),
                          ToLowerCase(Trim(OrEmpty(Get(incoming, "email"))))>>
      [] f = "phone" -> <<DigitsAndLeadingPlus(Get(existing, "phone")),
                          DigitsAndLeadingPlus(Get(incoming, "phone"))>>
      [] f = "name" -> <<NameOf(existing), NameOf(incoming)>>
      [] f = "linkedInUrl" -> <<ToLowerCase(Trim(OrEmpty(Get(existing, "linkedInUrl")))),
                                ToLowerCase(Trim(OrEmpty(Get(incoming, "linkedInUrl"))))>>

StatedConflict(f, existing, incoming) ==
    LET sides == StatedSides(f, existing, incoming)
    IN  sides[1] # <<>> /\ sides[2] # <<>> /\ sides[1] # sides[2]

\* C20: when ingest has compared an extraction with the snapshot, a conflict
\* is recorded on email, phone, name or linkedInUrl exactly when both sides
\* are non-empty after normalization (email and linkedInUrl lower-cased,
\* phone reduced to its digits and a leading '+', name lower-cased with
\* whitespace collapsed) and the normalized sides differ, and no conflict is
\* recorded on any other field.
C20_ConflictIff ==
    (ing.pc = "done" /\ ing.status \in {200, 409})
    => /\ \A f \in {"email", "phone", "name", "linkedInUrl"} :
             (f \in DetectedFields(ing.conflicts))
                <=> StatedConflict(f, ing.snap, ing.incoming)
       /\ DetectedFields(ing.conflicts) \subseteq {"email", "phone", "name", "linkedInUrl"}

\* the same with the phone side left out: what the code's own normalizers give
C20_ExceptPhone ==
    (ing.pc = "done" /\ ing.status \in {200, 409})
    => /\ \A f \in {"email", "name", "linkedInUrl"} :
             (f \in DetectedFields(ing.conflicts))
                <=> StatedConflict(f, ing.snap, ing.incoming)
       /\ ("phone" \in DetectedFields(ing.conflicts))
             <=> InConflict("phone", ing.snap, ing.incoming)
       /\ DetectedFields(ing.conflicts) \subseteq {"email", "phone", "name", "linkedInUrl"}

----------------------------------------------------------------------------
(* Properties of the follower merge *)

\* the normalized entries the merge folds, existing ones first
MergeInputs == NormalizeAll(mrg.existing) \o NormalizeAll(mrg.incoming)

PlatformsOf(list) == {list[i].platform : i \in 1..Len(list)}

\* the entries of list for platform p that carry its highest count
TiedAtTop(list, p) ==
    {list[i] : i \in {j \in 1..Len(list) :
                        /\ list[j].platform = p
                        /\ \A k \in 1..Len(list) :
                              list[k].platform = p => list[k].count <= list[j].count}}

Linked(e) == Has(e, "url") \/ Has(e, "handle")

\* among tied entries, those with a URL or handle when there are any
Preferred(tied) == IF \E e \in tied : Linked(e) THEN {e \in tied : Linked(e)} ELSE tied

WithoutLabel(e) == [k \in DOMAIN e \ {"label"} |-> e[k]]

\* C21: a merge result has exactly one entry for each platform of the
\* normalized inputs; the entry carries the platform's highest count, is one
\* of the entries tied on that count, one with a URL or handle when a tied
\* entry has one, and has a label when one of those preferred entries has a
\* label; the result is sorted by count, highest first.
C21_BestPerPlatform ==
    (mrg.pc = "returned" /\ mrg.result # NoSignal)
    => /\ PlatformsOf(mrg.result) = PlatformsOf(MergeInputs)
       /\ \A i, j \in 1..Len(mrg.result) :
             mrg.result[i].platform = mrg.result[j].platform => i = j
       /\ \A i \in 1..Len(mrg.result) :
             LET e == mrg.result[i]
                 best == Preferred(TiedAtTop(MergeInputs, e.platform))
             IN  /\ \E t \in best : WithoutLabel(t) = WithoutLabel(e)
                 /\ (\E t \in best : Has(t, "label")) => Has(e, "label")
                 /\ Has(e, "label") => \E t \in best : Has(t, "label") /\ t.label = e.label
       /\ \A i \in 1..(Len(mrg.result) - 1) : mrg.result[i].count >= mrg.result[i + 1].count

\* twitter:10 and x:10 with a URL tie on x, the one with the URL is kept and
\* sorted after instagram:100, which came later
C21_Witness ==
    /\ mrg.pc = "returned"
    /\ mrg.existing = <<F("twitter", 10)>>
    /\ mrg.incoming = <<With(F("x", 10), "url", uA), F("instagram", 100)>>
    /\ mrg.result = <<F("instagram", 100), With(F("x", 10), "url", uA)>>

\* the count of a raw entry is missing or null
CountMissing(raw) == ~Has(raw, "count") /\ ~Has(raw, "countText")

\* the count of a raw entry is a text that is not a number
CountNotNumeric(raw) ==
    /\ Has(raw, "countText")
    /\ \E i \in 1..Len(raw.countText) : ~IsDigit(raw.countText[i])

CountNegative(raw) == Has(raw, "count") /\ raw.count < 0

\* the number a raw entry with a usable count states; none counts as 0
StatedCount(raw) ==
    IF Has(raw, "count") THEN raw.count
    ELSE IF Has(raw, "countText") THEN Num(Decimal(raw.countText))
    ELSE Num(0)

\* the result entry e is the normalization of the raw entry raw
NormalizedFrom(e, raw) ==
    /\ e.platform = canonicalPlatform(normalizePlatform(raw.platform))
    /\ e.count = MathRound(StatedCount(raw))
    /\ Trim(OrEmpty(Get(raw, "metric"))) # <<>>
          => /\ Has(e, "metric")
             /\ e.metric = IF Contains(ToLowerCase(raw.metric), <<"s", "u", "b">>)
                            THEN Subscribers ELSE Followers

\* the merge dropped the entries that satisfy Fails and normalized the others
DropsAndNormalizes(Fails(_)) ==
    LET Usable(raw) == ~Fails(raw)
        exKept == SelectSeq(mrg.existing, Usable)
        incKept == SelectSeq(mrg.incoming, Usable)
        kept == exKept \o incKept
    IN  /\ mrg.result = mergeSocialFollowers(exKept, incKept)
        /\ mrg.result # NoSignal =>
              \A i \in 1..Len(mrg.result) :
                  /\ IsInteger(mrg.result[i].count)
                  /\ mrg.result[i].count >= 0
                  /\ \E j \in 1..Len(kept) : NormalizedFrom(mrg.result[i], kept[j])

\* C22: every entry of a merge result has a non-negative integer count, the
\* rounded count of an input entry, and the metric subscribers when that
\* entry's metric contains "sub" and followers when it is another text; an
\* input entry whose count is missing or null, is not a number or is negative
\* is dropped: the result is the one the merge gives without such entries.
C22_CoercedOrDropped ==
    mrg.pc = "returned"
    => DropsAndNormalizes(LAMBDA raw : CountMissing(raw) \/ CountNotNumeric(raw)
                                          \/ CountNegative(raw))

\* the same with an entry that has no count taken as a count of 0
C22_MissingIsZero ==
    mrg.pc = "returned"
    => DropsAndNormalizes(LAMBDA raw : CountNotNumeric(raw) \/ CountNegative(raw))

----------------------------------------------------------------------------
(* Properties of the curator's failures *)

\* the curator has asked for a ranking and has ended
CurateEnded == fn.name = "curate" /\ fn.pc \in {"returned", "threw"} /\ fn.pool # <<>>

\* the ranking call answered, and what it answered cannot be parsed
RankingUnparsable ==
    /\ fn.answer.modelCalls = 2 \/ fn.content # NULL
    /\ fn.content = NULL \/ Unparsable(fn.content)

\* no curation was obtained: the ranking call failed, or its answer could not
\* be parsed and the repair call failed or answered what cannot be parsed
NoCuration ==
    \/ fn.answer.modelCalls = 1 /\ fn.content = NULL /\ ~fn.answer.ok
    \/ RankingUnparsable /\ (fn.repair = Rejects \/ Unparsable(fn.repair))

\* C23: a ranking answer that cannot be parsed is followed by exactly one
\* repair round-trip; when no curation is obtained, because the repaired
\* answer cannot be parsed either or the ranking or the repair call fails,
\* the curator returns the empty list and raises nothing.
C23_FailsEmpty ==
    CurateEnded =>
        /\ RankingUnparsable => fn.answer.modelCalls = 2
        /\ NoCuration => fn.pc = "returned" /\ fn.answer.value = <<>>

\* what the curator does instead: one repair round-trip at most, made exactly
\* when the ranking answer cannot be parsed, and an exception when no
\* curation is obtained
C23_FailsThrowing ==
    CurateEnded =>
        /\ fn.answer.modelCalls \in {1, 2}
        /\ RankingUnparsable <=> fn.answer.modelCalls = 2
        /\ NoCuration => fn.pc = "threw"

----------------------------------------------------------------------------
(* Properties of the final write of a research pass *)

\* the final write of the deep-research endpoint r happens in this step
EndpointWrites(r) ==
    runs[r].pc = "final" /\ runs'[r].pc = "closed" /\ runs'[r].status = 200

\* the final write of the quick-capture research happens in this step
CaptureWrites == cp.pc = "final" /\ cp'.pc = "ready"

\* the lists curateExtraLinks has returned to the pass that is about to do
\* its final write; processCaptureAsync makes no curateExtraLinks call
CuratedFor(pass) ==
    IF pass \in RunIds
    THEN (IF runs[pass].pc = "final" THEN {runs[pass].links} ELSE {})
    ELSE {}

\* the extraLinks field differs after the step
ExtraLinksChange ==
    \/ Has(contact', "extraLinks") # Has(contact, "extraLinks")
    \/ Has(contact, "extraLinks") /\ contact'.extraLinks # contact.extraLinks

\* C24: the final write of a research pass, by the streaming endpoint, the
\* non-streaming endpoint or the quick capture, sets extraLinks to the list
\* the link curator returned to that pass, whatever the field held before,
\* and no other step changes extraLinks.
C24_CuratorOnly ==
    [][ /\ \A r \in RunIds :
              EndpointWrites(r) => /\ Has(contact', "extraLinks")
                                   /\ contact'.extraLinks \in CuratedFor(r)
        /\ CaptureWrites => /\ Has(contact', "extraLinks")
                             /\ contact'.extraLinks \in CuratedFor("capture")
        /\ ExtraLinksChange => CaptureWrites \/ \E r \in RunIds : EndpointWrites(r) ]_vars

\* the two endpoints alone: their final write stores the curator's list
C24_EndpointsCurated ==
    [][ /\ \A r \in RunIds :
              EndpointWrites(r) => /\ Has(contact', "extraLinks")
                                   /\ contact'.extraLinks \in CuratedFor(r)
        /\ ExtraLinksChange => \E r \in RunIds : EndpointWrites(r) ]_vars

----------------------------------------------------------------------------
(* Properties of the research images *)

\* the images of the batch that may be stored: the first MaxImages
Eligible == Slice(fn.params.images, MaxImages)

\* the stored images are those of the eligible ones that were saved
StoredAreSaved ==
    /\ Len(fn.outcomes) = Len(Eligible)
    /\ LET saved == {i \in 1..Len(Eligible) : fn.outcomes[i] = "saved"}
       IN  /\ Len(fn.out) = Cardinality(saved)
           /\ \A i \in saved : \E j \in 1..Len(fn.out) :
                  fn.out[j] = StoredImage(i - 1, Eligible[i])

\* C25: persistResearchImages stores at most six images, and an image that
\* cannot be fetched or saved (error status, network error, empty body, save
\* failure) is skipped alone: the call never aborts, every other eligible
\* image is still processed, and what returns is the saved ones.
C25_SkipsFailedImage ==
    fn.name = "persist" =>
        /\ Len(fn.out) <= MaxImages
        /\ fn.pc # "threw"
        /\ fn.pc = "returned" => StoredAreSaved

\* what holds instead: at most six are stored, an image without source, with
\* an error status or with an empty body is skipped alone, and a fetch that
\* rejects or a save that fails aborts the call
C25_AbortsOnReject ==
    fn.name = "persist" =>
        /\ Len(fn.out) <= MaxImages
        /\ fn.pc = "returned" => StoredAreSaved
        /\ fn.pc = "threw" <=>
              \E i \in 1..Len(fn.outcomes) : fn.outcomes[i] \in {"network error", "save failed"}

----------------------------------------------------------------------------
(* Properties of a streaming run whose caller went away *)

\* the streaming run has ended and its caller had closed the connection
EndedAfterClose == runs["stream"].pc = "closed" /\ ~runs["stream"].open

\* C26: when the caller closes the connection during a streaming run, the
\* terminal status update is not lost: the run does not end with the
\* contact's research status left at running.
C26_TerminalAfterClose ==
    EndedAfterClose => contact.deepResearchStatus # "running"

\* what holds instead: such a run never ends with the status at error; the
\* status is done when the final write was made and is otherwise the one the
\* run last wrote or found
C26_DoneOrAsBefore ==
    EndedAfterClose =>
        /\ contact.deepResearchStatus \in {"done", "running", "disabled"}
        /\ contact.deepResearchStatus = "done" => Has(contact, "extraLinks")

----------------------------------------------------------------------------
(* Properties of the progress stages *)

StageOrder == <<"starting", "searching", "generating", "saving", "enriching">>

StageRank(stage) == CHOOSE i \in 1..Len(StageOrder) : StageOrder[i] = stage

\* the stages of the status records, in the order of their emission
StagesOf(evs) ==
    LET statusEvs == SelectSeq(evs, LAMBDA e : e.type = "status")
    IN  [i \in 1..Len(statusEvs) |-> statusEvs[i].stage]

\* no stage is emitted after a later one
InStageOrder(stages) ==
    \A i, j \in 1..Len(stages) : i < j => StageRank(stages[i]) <= StageRank(stages[j])

\* the streaming run has ended with its final write made
StreamSucceeded == runs["stream"].pc = "closed" /\ runs["stream"].status = 200

\* C27: a streaming run that succeeds, with the streaming or the batch
\* backend, has emitted each of the stages starting, searching, generating,
\* saving and enriching, none of them after a later one, and the done record
\* after them all.
C27_StagesInOrder ==
    StreamSucceeded =>
        LET stages == StagesOf(events)
        IN  /\ \A k \in 1..Len(StageOrder) : \E i \in 1..Len(stages) : stages[i] = StageOrder[k]
            /\ InStageOrder(stages)
            /\ events[Len(events)].type = "done"

\* the same without the promise of generating, which the streaming backend
\* emits once for every chat.reasoning.done chunk of the research stream
C27_OtherStagesInOrder ==
    StreamSucceeded =>
        LET stages == StagesOf(events)
        IN  /\ \A k \in {1, 2, 4, 5} : \E i \in 1..Len(stages) : stages[i] = StageOrder[k]
            /\ InStageOrder(stages)
            /\ events[Len(events)].type = "done"

----------------------------------------------------------------------------
(* Properties of the tags *)

Elements(list) == {list[i] : i \in 1..Len(list)}

\* the tags of the enrichment patch, trimmed, without the empty ones
PatchTags(enrichment) == Elements(TrimTags(GetArr(enrichment.contactPatch, "tags")))

\* C28: when a deep-research run whose enrichment patch carries tags makes its
\* final write, the stored tags contain every tag the contact had before the
\* run and every tag of the patch.
C28_TagsUnioned ==
    [][ /\ \A r \in RunIds :
              EndpointWrites(r) /\ PatchTags(runs[r].enrichment) # {}
                  => /\ Elements(GetArr(runs[r].data, "tags")) \subseteq Elements(contact'.tags)
                     /\ PatchTags(runs[r].enrichment) \subseteq Elements(contact'.tags)
        /\ CaptureWrites /\ PatchTags(cp.enrichment) # {}
              => /\ Elements(contact.tags) \subseteq Elements(contact'.tags)
                 /\ PatchTags(cp.enrichment) \subseteq Elements(contact'.tags) ]_vars

\* what the final write does: the patch tags replace the stored ones
C28_TagsReplaced ==
    [][ \A r \in RunIds :
            EndpointWrites(r) /\ Has(runs[r].enrichment.contactPatch, "tags")
                => Elements(contact'.tags) = PatchTags(runs[r].enrichment) ]_vars

\* the list is a set of trimmed, non-empty tags
TagSet(list) ==
    /\ \A i \in 1..Len(list) : list[i] # <<>> /\ Trim(list[i]) = list[i]
    /\ \A i, j \in 1..Len(list) : list[i] = list[j] => i = j

\* C29: an ingest that answers 200 on an extraction with tags leaves as
\* stored tags exactly the union of the tags it read and the incoming tags,
\* each trimmed, none empty (incoming tags that are all blank add nothing:
\* the stored tags stay as they are); and whatever capture, ingest and deep
\* research have written, the stored tags hold no duplicate and no untrimmed
\* or empty tag.
C29_TagsAreASet ==
    /\ [](Has(contact, "tags") => TagSet(contact.tags))
    /\ [][ (IngestAnswers /\ ing'.status = 200 /\ Has(ing'.incoming, "tags"))
            => IF TrimTags(ing'.incoming.tags) = <<>>
               THEN contact'.tags = contact.tags
               ELSE Elements(contact'.tags)
                      = Elements(TrimTags(GetArr(ing.snap, "tags")))
                        \cup Elements(TrimTags(ing'.incoming.tags)) ]_vars

\* a capture stored two tags, the research replaced them, and an ingest then
\* added a third and a fourth to the two it found
C29_Witness ==
    /\ cp.pc = "end"
    /\ runs["route"].pc = "closed" /\ runs["route"].status = 200
    /\ ing.pc = "done" /\ ing.status = 200
    /\ ing.snap.tags = <<tNew, tVip>>
    /\ ing.incoming = One("tags", <<tOld, tVip>>)
    /\ contact.tags = <<tNew, tVip, tOld>>

\* the enrichment summary as the final write takes it: trimmed, null when the
\* enrichment has none or a blank one
SummaryOf(enrichment) ==
    LET summary == Trim(OrEmpty(Get(enrichment, "summary")))
    IN  IF summary # <<>> THEN summary ELSE NULL

\* the notes a successful enrichment is to leave
NotesAfter(enrichment) ==
    IF Has(enrichment.contactPatch, "notes")
    THEN enrichment.contactPatch.notes
    ELSE SummaryOf(enrichment)

\* C30: the final write of a research pass (either endpoint, or the quick
\* capture) leaves as the contact's notes the notes of the enrichment patch
\* when the patch has a notes property, null included, and the enrichment
\* summary otherwise (trimmed; null when there is no summary).
C30_NotesOrSummary ==
    [][ /\ \A r \in RunIds :
              EndpointWrites(r) => contact'.notes = NotesAfter(runs[r].enrichment)
        /\ CaptureWrites => contact'.notes = NotesAfter(cp.enrichment) ]_vars

\* a run on a contact with notes of its own ended with the summary as notes
C30_Witness ==
    \E r \in RunIds :
        /\ runs[r].pc = "closed" /\ runs[r].status = 200
        /\ Get(runs[r].data, "notes") = nA
        /\ ~Has(runs[r].enrichment.contactPatch, "notes")
        /\ runs[r].enrichment.summary = sSum
        /\ contact.notes = Trim(sSum)

\* a run whose patch sets notes ended with the notes of the patch
C30_PatchNotesKept ==
    \E r \in RunIds :
        /\ runs[r].pc = "closed" /\ runs[r].status = 200
        /\ Get(runs[r].enrichment.contactPatch, "notes") = nB
        /\ runs[r].enrichment.summary = sSum
        /\ contact.notes = nB


----------------------------------------------------------------------------
(* Properties of the identity fields *)

\* field k holds the same, or is as absent, after the step
FieldKept(k) ==
    /\ Has(contact', k) = Has(contact, k)
    /\ Has(contact, k) => contact'[k] = contact[k]

\* C31: in the final write of a deep-research run, by either endpoint, an
\* identity field the enrichment patch omits stays as it was, a field the
\* patch sets to null is stored as null, and a field the patch sets to a
\* string holds that string.
C31_PatchedFields ==
    [][ \A r \in RunIds :
            EndpointWrites(r) =>
                \A k \in ScalarFieldSet :
                    IF Has(runs[r].enrichment.contactPatch, k)
                    THEN contact'[k] = runs[r].enrichment.contactPatch[k]
                    ELSE FieldKept(k) ]_vars

\* a run cleared the e-mail, replaced the name and left the phone alone
C31_Witness ==
    \E r \in RunIds :
        /\ runs[r].pc = "closed" /\ runs[r].status = 200
        /\ runs[r].data.email = eA /\ runs[r].data.fullName = sAnnB
        /\ runs[r].enrichment.contactPatch = [email |-> NULL, fullName |-> sBob]
        /\ contact.email = NULL /\ contact.fullName = sBob /\ contact.phone = p1

----------------------------------------------------------------------------
(* Properties of the stored links *)

\* a link with a non-empty label and a non-empty http or https url
WellFormedLink(l) ==
    /\ l.label # <<>>
    /\ l.url # NULL /\ l.url # <<>>
    /\ StartsWith(l.url, Http) \/ StartsWith(l.url, Https)

\* no two links of the list have the same normalized url
DistinctUrls(list) ==
    \A i, j \in 1..Len(list) :
        normalizeLinkUrl(list[i].url) = normalizeLinkUrl(list[j].url) => i = j

\* C32: the extraLinks a contact holds, written by the capture's research or
\* by a deep-research run, are links with a non-empty label and a non-empty
\* http or https url, no two of them with the same normalized url.
C32_LinksClean ==
    Has(contact, "extraLinks") =>
        /\ \A i \in 1..Len(contact.extraLinks) : WellFormedLink(contact.extraLinks[i])
        /\ DistinctUrls(contact.extraLinks)

\* what holds instead: every stored link is well-formed, duplicates aside
C32_LinksWellFormed ==
    Has(contact, "extraLinks") =>
        \A i \in 1..Len(contact.extraLinks) : WellFormedLink(contact.extraLinks[i])

\* the capture's research stored one url under two labels
C32_CaptureStoresDuplicate ==
    /\ cp.pc \in {"ready", "end"}
    /\ runs["route"].pc = "idle"
    /\ Has(contact, "extraLinks")
    /\ contact.extraLinks = <<Ranked(lblL, kA), Ranked(sT, kA)>>

\* a deep-research run stored the two equal links its curator returned
C32_EndpointStoresDuplicate ==
    /\ runs["route"].pc = "closed" /\ runs["route"].status = 200
    /\ Has(contact, "extraLinks")
    /\ contact.extraLinks = Repeat(Ranked(lblL, kA), 2)

----------------------------------------------------------------------------
(* Properties of the capture and its contact *)

\* the contact documents that exist, by id: the one processCaptureAsync
\* created and the one the on-create trigger created
CreatedContactIds ==
    (IF contact # EmptyObj THEN {"contactId"} ELSE {})
    \cup (IF trg.contact # EmptyObj THEN {"triggerContactId"} ELSE {})

CaptureIs(status) == Has(capture, "status") /\ capture.status = status

\* C33: a capture whose status is ready has a resultContactId, and that id is
\* the id of a contact document that has been created.
C33_ReadyHasContact ==
    CaptureIs("ready") =>
        /\ Has(capture, "resultContactId")
        /\ capture.resultContactId \in CreatedContactIds

\* the research of the capture failed and the capture was marked ready by the
\* research catch block, the on-create trigger having failed before
C33_Witness ==
    /\ CaptureIs("ready")
    /\ cp.pc = "end" /\ cp.failedAt \in ResearchSteps
    /\ trg.pc = "end" /\ trg.contact = EmptyObj
    /\ capture.resultContactId = "contactId"
    /\ contact.deepResearchStatus = "error"

----------------------------------------------------------------------------
(* Properties of concurrent passes *)

\* the step commits patch: each field of the patch holds the value of the
\* patch, every other field of the document stays as it was
Commits(patch) ==
    /\ DOMAIN contact' = DOMAIN contact \cup DOMAIN patch
    /\ \A k \in DOMAIN contact' :
          contact'[k] = IF k \in DOMAIN patch THEN patch[k] ELSE contact[k]

\* the ingest call writes in this step
IngestWrites == IngestAnswers /\ ing'.status = 200 /\ ing'.applied # <<>>

\* the patch of the ingest call, computed from the snapshot it read
IngestPatchOf(snap, incoming, force, deep) ==
    MergeSet(FromEntries(PatchEntries(snap, incoming, force)),
             IF deep THEN [deepResearchStatus |-> "queued", deepResearchError |-> NoError]
             ELSE EmptyObj)

\* C34: passes on one contact run without a lock.  A pass reads the contact
\* once, when it starts; the write of an ingest call and the final write of a
\* deep-research run commit a patch computed from that snapshot, whatever the
\* contact holds by then: the fields of the patch take its values, the other
\* fields keep what the last write to them left.
C34_LastWriteWins ==
    [][ /\ \A r \in RunIds :
              /\ runs[r].pc = "idle" /\ runs'[r].pc = "setRunning"
                    => runs'[r].data = contact
              /\ EndpointWrites(r)
                    => Commits(FinalPatch(runs[r].data, runs[r].enrichment, runs[r].links))
        /\ ing.pc = "idle" /\ ing'.pc = "read" => ing'.snap = contact
        /\ IngestWrites
              => Commits(IngestPatchOf(ing.snap, ing'.incoming, ing.force, ing.deep)) ]_vars

\* the lost update: an ingest call and a deep-research run read the same
\* followers; the ingest call committed instagram at 100, and the final write
\* of the run, computed from its own snapshot, left instagram at 70
C34_Witness ==
    \E r \in RunIds :
        /\ ing.pc = "done" /\ ing.status = 200
        /\ runs[r].pc = "closed" /\ runs[r].status = 200
        /\ ing.snap = runs[r].data
        /\ Has(ing.patch, "socialFollowers")
        /\ F("instagram", 100) \in Elements(ing.patch.socialFollowers)
        /\ Has(contact, "socialFollowers")
        /\ F("instagram", 100) \notin Elements(contact.socialFollowers)
        /\ F("instagram", 70) \in Elements(contact.socialFollowers)

\* C35: a capture that retry has set back to queued is processed again: it
\* becomes processing, and it reaches ready or error.
C35_RetryIsProcessed ==
    /\ CaptureIs("queued") ~> CaptureIs("processing")
    /\ CaptureIs("queued") ~> (CaptureIs("ready") \/ CaptureIs("error"))

\* what holds instead: once both handlers of the creation have ended, a queued
\* capture is never written again
C35_QueuedStaysQueued ==
    [][ CaptureIs("queued") /\ cp.pc = "end" /\ trg.pc = "end"
            => capture' = capture ]_vars

\* both handlers failed in their model call and recorded it, the capture was
\* retried, and nothing is left to run
C35_QueuedForGood ==
    /\ CaptureIs("queued")
    /\ cp.pc = "end" /\ cp.failedAt = "extract" /\ ~cp.recoveryFailed
    /\ trg.pc = "end" /\ trg.error = "OpenRouter error"

\* C36: a capture produces at most one contact, and its resultContactId, once
\* set, never changes, whatever the upload route's background processor and
\* the on-create trigger do and in whatever order.
C36_OneContact ==
    /\ [](Cardinality(CreatedContactIds) <= 1)
    /\ [][ Has(capture, "resultContactId")
              => /\ Has(capture', "resultContactId")
                 /\ capture'.resultContactId = capture.resultContactId ]_vars

\* what holds instead: a handler stamps the id of the contact it created
\* itself, and the id, once set, is never removed
C36_StampsOwnContact ==
    [][ /\ Has(capture, "resultContactId") => Has(capture', "resultContactId")
        /\ (Has(capture', "resultContactId")
             /\ (~Has(capture, "resultContactId")
                 \/ capture'.resultContactId # capture.resultContactId))
              => \/ cp.pc = "markCapture" /\ capture'.resultContactId = "contactId"
                 \/ trg.pc = "markReady" /\ capture'.resultContactId = "triggerContactId" ]_vars

\* both handlers ran to their end without a failure: two contacts exist and
\* the id the processor had stamped was replaced by the trigger's
C36_TwoContacts ==
    /\ cp.pc = "end" /\ cp.failedAt = ""
    /\ trg.pc = "end" /\ trg.error = ""
    /\ CreatedContactIds = {"contactId", "triggerContactId"}
    /\ capture.resultContactId = "triggerContactId"

----------------------------------------------------------------------------
(* Properties of the notes under deep research *)

\* the enrichment has neither notes in its patch nor a summary that is not
\* blank
NoNotesNoSummary(enrichment) ==
    /\ ~Has(enrichment.contactPatch, "notes")
    /\ SummaryOf(enrichment) = NULL

\* C37: the final write of a deep-research run whose enrichment has neither
\* notes nor a non-empty summary leaves the notes of the contact as they
\* were.
C37_NotesKept ==
    [][ \A r \in RunIds :
            EndpointWrites(r) /\ NoNotesNoSummary(runs[r].enrichment)
                => contact'.notes = contact.notes ]_vars

\* a run without notes and without summary ended on a contact that had notes:
\* the notes are null
C37_NotesErased ==
    \E r \in RunIds :
        /\ runs[r].pc = "closed" /\ runs[r].status = 200
        /\ NoNotesNoSummary(runs[r].enrichment)
        /\ Get(runs[r].data, "notes") = nA
        /\ contact.notes = NULL

----------------------------------------------------------------------------
(* Properties of the research request of ingest *)

\* the ingest call answers 200 with deepResearchQueued: true in this step
AnswersQueued == IngestAnswers /\ ing'.status = 200 /\ ing'.queued

\* the call has written these two fields in this step
QueuedByCall ==
    /\ Has(ing'.patch, "deepResearchStatus") /\ Has(ing'.patch, "deepResearchError")
    /\ Has(contact', "deepResearchStatus") /\ contact'.deepResearchStatus = "queued"
    /\ Has(contact', "deepResearchError") /\ contact'.deepResearchError = NoError

\* C38: an ingest call that answers deepResearchQueued: true has set the
\* contact's deepResearchStatus to queued and cleared deepResearchError,
\* also when the extraction gave nothing to apply.
C38_QueuedIsWritten ==
    [][ AnswersQueued => QueuedByCall ]_vars

\* what holds instead: the two fields are written when a field was applied
C38_QueuedWhenApplied ==
    [][ AnswersQueued => (QueuedByCall <=> ing'.applied # <<>>) ]_vars

\* the call answered deepResearchQueued: true, applied nothing, and the
\* contact is not queued for research
C38_AnsweredNotQueued ==
    /\ ing.pc = "done" /\ ing.status = 200 /\ ing.queued
    /\ ing.applied = <<>>
    /\ Get(contact, "deepResearchStatus") # "queued"

----------------------------------------------------------------------------
(* Properties of the curator on bad links *)

\* the answer the curator used: the repair answer when it asked for one
UsedAnswer == IF fn.answer.modelCalls = 2 THEN fn.repair ELSE fn.content

\* the curator has ended on a ranking answer that parses and carries the
\* ranked links
RankingParsed ==
    /\ CurateEnded
    /\ UsedAnswer # NULL /\ UsedAnswer # Rejects
    /\ fn.answer.modelCalls = 2 \/ fn.content # NULL
    /\ safeParseModelJson(UsedAnswer).ok
    /\ safeParseModelJson(UsedAnswer).value = <<Conforming>>

\* the ranked link has a label that is not blank
Labelled(l) == Trim(OrEmpty(Get(l, "label"))) # <<>>

\* the ranked link has a url that normalization accepts
UrlAccepted(l) == normalizeLinkUrl(Get(l, "url")) # NULL

\* the ranked links without the bad ones, label trimmed and url normalized
RECURSIVE GoodLinks(_)
GoodLinks(ranked) ==
    IF ranked = <<>> THEN <<>>
    ELSE (IF Labelled(Head(ranked)) /\ UrlAccepted(Head(ranked))
          THEN <<[label |-> Trim(Head(ranked).label),
                  url |-> normalizeLinkUrl(Head(ranked).url)]>>
          ELSE <<>>)
         \o GoodLinks(Tail(ranked))

\* C39: on a ranking answer that parses, the curator drops every ranked link
\* with an empty label, without url or with a url that normalization
\* rejects, returns the remaining links (up to its maximum) and raises
\* nothing.
C39_BadLinksDropped ==
    RankingParsed =>
        /\ fn.pc = "returned"
        /\ fn.answer.value = Slice(GoodLinks(fn.ranked), ClampMaxLinks(fn.args))

\* what the curator does instead: it raises when a ranked link with a label
\* has no url or a rejected one, and drops the links without label otherwise
C39_BadUrlThrows ==
    RankingParsed =>
        IF \E i \in 1..Len(fn.ranked) : Labelled(fn.ranked[i]) /\ ~UrlAccepted(fn.ranked[i])
        THEN fn.pc = "threw"
        ELSE /\ fn.pc = "returned"
             /\ fn.answer.value = Slice(GoodLinks(fn.ranked), ClampMaxLinks(fn.args))

\* a good link followed by an ftp link: the curator threw
C39_ThrewOnFtp ==
    /\ RankingParsed
    /\ fn.ranked = <<Ranked(lblL, kB), Ranked(lblL, kFtp)>>
    /\ fn.pc = "threw"

\* a link with a blank label before a good one: dropped, the good one returned
C39_BlankLabelDropped ==
    /\ RankingParsed
    /\ fn.ranked = <<Ranked(sBlank, kA), Ranked(lblL, kBare)>>
    /\ fn.pc = "returned"
    /\ fn.answer.value = <<Ranked(lblL, Https \o kBare)>>
====
